---- MODULE Spec2Model ----
(***************************************************************************)
(* Schunk Motion Protocol client (schunk.py): the command/response codec,  *)
(* the RS232 framing with its CRC16, and the per-call session that drives  *)
(* one or more frame exchanges over one open serial channel.               *)
(*                                                                         *)
(* Bytes are the integers 0..255, byte strings are sequences of bytes.     *)
(* A float is modelled by the fields of its IEEE-754 single encoding.      *)
(***************************************************************************)
EXTENDS Integers, Sequences, FiniteSets, TLC

(* ---------- bounds of the model ---------- *)

\* Number of calls made on the one Module object in a behaviour.
MaxCalls == 2

(* ---------- bit operations on naturals ---------- *)

RECURSIVE XorBits(_, _)
\* a ^ b, bit by bit from the lowest
XorBits(a, b) ==
    IF a = 0 THEN b
    ELSE IF b = 0 THEN a
    ELSE (((a % 2) + (b % 2)) % 2) + (2 * XorBits(a \div 2, b \div 2))

\* a ^ b of Python, on non-negative integers; each operand is evaluated
\* once, before the bits are combined
Xor(a, b) == CHOOSE r \in {XorBits(x, y) : x \in {a}, y \in {b}} : TRUE

RECURSIVE BitAndBits(_, _)
\* a & b, bit by bit from the lowest
BitAndBits(a, b) ==
    IF a = 0 \/ b = 0 THEN 0
    ELSE ((a % 2) * (b % 2)) + (2 * BitAndBits(a \div 2, b \div 2))

\* a & b of Python, on non-negative integers; each operand is evaluated
\* once, before the bits are combined
BitAnd(a, b) == CHOOSE r \in {BitAndBits(x, y) : x \in {a}, y \in {b}} : TRUE

\* a >> 8 of Python
Shr8(a) == a \div 256

Min(a, b) == IF a < b THEN a ELSE b

\* s[:n] of Python
Take(s, n) == SubSeq(s, 1, Min(n, Len(s)))

\* s[n:] of Python
Drop(s, n) == SubSeq(s, Min(n, Len(s)) + 1, Len(s))

(* ---------- CRC16 ---------- *)

\* Table copied from the Schunk manual
_crc16_tbl ==
    <<
       0, 49345, 49537, 320, 49921, 960, 640, 49729,
       50689, 1728, 1920, 51009, 1280, 50625, 50305, 1088,
       52225, 3264, 3456, 52545, 3840, 53185, 52865, 3648,
       2560, 51905, 52097, 2880, 51457, 2496, 2176, 51265,
       55297, 6336, 6528, 55617, 6912, 56257, 55937, 6720,
       7680, 57025, 57217, 8000, 56577, 7616, 7296, 56385,
       5120, 54465, 54657, 5440, 55041, 6080, 5760, 54849,
       53761, 4800, 4992, 54081, 4352, 53697, 53377, 4160,
       61441, 12480, 12672, 61761, 13056, 62401, 62081, 12864,
       13824, 63169, 63361, 14144, 62721, 13760, 13440, 62529,
       15360, 64705, 64897, 15680, 65281, 16320, 16000, 65089,
       64001, 15040, 15232, 64321, 14592, 63937, 63617, 14400,
       10240, 59585, 59777, 10560, 60161, 11200, 10880, 59969,
       60929, 11968, 12160, 61249, 11520, 60865, 60545, 11328,
       58369, 9408, 9600, 58689, 9984, 59329, 59009, 9792,
       8704, 58049, 58241, 9024, 57601, 8640, 8320, 57409,
       40961, 24768, 24960, 41281, 25344, 41921, 41601, 25152,
       26112, 42689, 42881, 26432, 42241, 26048, 25728, 42049,
       27648, 44225, 44417, 27968, 44801, 28608, 28288, 44609,
       43521, 27328, 27520, 43841, 26880, 43457, 43137, 26688,
       30720, 47297, 47489, 31040, 47873, 31680, 31360, 47681,
       48641, 32448, 32640, 48961, 32000, 48577, 48257, 31808,
       46081, 29888, 30080, 46401, 30464, 47041, 46721, 30272,
       29184, 45761, 45953, 29504, 45313, 29120, 28800, 45121,
       20480, 37057, 37249, 20800, 37633, 21440, 21120, 37441,
       38401, 22208, 22400, 38721, 21760, 38337, 38017, 21568,
       39937, 23744, 23936, 40257, 24320, 40897, 40577, 24128,
       23040, 39617, 39809, 23360, 39169, 22976, 22656, 38977,
       34817, 18624, 18816, 35137, 19200, 35777, 35457, 19008,
       19968, 36545, 36737, 20288, 36097, 19904, 19584, 35905,
       17408, 33985, 34177, 17728, 34561, 18368, 18048, 34369,
       33281, 17088, 17280, 33601, 16640, 33217, 32897, 16448
    >>

\* crc16_increment with the data byte masked with 0x7F
crc16_increment_mask(crc, data) ==
    Xor(Shr8(BitAnd(crc, 65280)),
        _crc16_tbl[Xor(BitAnd(crc, 255), BitAnd(data, 127)) + 1])

\* crc16_increment(crc, data): new CRC16 after appending the byte `data`
crc16_increment(crc, data) ==
    Xor(Shr8(BitAnd(crc, 65280)),
        _crc16_tbl[Xor(BitAnd(crc, 255), BitAnd(data, 255)) + 1])

RECURSIVE crc16_loop(_, _)
\* the for loop of crc16(): feeds the bytes of data, in order, into crc;
\* each new value of crc is computed before the next byte is taken
crc16_loop(crc, data) ==
    IF data = <<>> THEN crc
    ELSE CHOOSE r \in {crc16_loop(next, rest) :
                           next \in {crc16_increment(crc, Head(data))},
                           rest \in {Tail(data)}} : TRUE

\* struct.pack('<H', v): two bytes, low byte first
pack_H(v) == <<v % 256, (v \div 256) % 256>>

\* crc16 with the loop started at 0xFFFF
crc16_from_ffff(data) == pack_H(crc16_loop(65535, data))

\* crc16(data): CRC16 of a byte string, as 2 bytes, little endian
crc16(data) == pack_H(crc16_loop(0, data))

(* ---------- struct: single precision floats ---------- *)

\* struct.unpack('<f', b): the float whose IEEE-754 single encoding is the
\* little-endian 32 bit word b; s is the sign bit, e the biased exponent,
\* m the 23 bit fraction.
unpack_f(b) ==
    [s |-> b[4] \div 128,
     e |-> ((b[4] % 128) * 2) + (b[3] \div 128),
     m |-> ((b[3] % 128) * 65536) + (b[2] * 256) + b[1]]

\* struct.pack('<f', x) for a float x that is a single precision value
pack_f(x) ==
    <<x.m % 256,
      (x.m \div 256) % 256,
      ((x.e % 2) * 128) + (x.m \div 65536),
      (x.s * 128) + (x.e \div 2)>>

\* the float 0.0
Float0 == [s |-> 0, e |-> 0, m |-> 0]

\* the float 10.0 (0x41200000)
Float10 == [s |-> 0, e |-> 130, m |-> 2097152]

\* struct.calcsize(format_string), for the format strings the calls use
calcsize(format_string) ==
    CASE format_string = "<f" -> 4
      [] format_string = "<BBf" -> 6
      [] format_string = "2sB" -> 3
      [] format_string = "3s" -> 3
      [] format_string = "<sB" -> 2
      [] format_string = "<sf" -> 5
      [] format_string = "8s4x2x2x2x26x" -> 44
      [] format_string = "8x4xH2x2x26x" -> 44

\* struct.unpack(format_string, b), for the format strings the calls use
unpack(format_string, b) ==
    CASE format_string = "<f" -> <<unpack_f(b)>>
      [] format_string = "<BBf" -> <<b[1], b[2], unpack_f(Drop(b, 2))>>
      [] format_string = "2sB" -> <<Take(b, 2), b[3]>>
      [] format_string = "3s" -> <<b>>
      [] format_string = "<sB" -> <<Take(b, 1), b[2]>>
      [] format_string = "<sf" -> <<Take(b, 1), unpack_f(Drop(b, 1))>>
      [] format_string = "8s4x2x2x2x26x" -> <<Take(b, 8)>>
      [] format_string = "8x4xH2x2x26x" -> <<b[13] + (256 * b[14])>>

(* ---------- the codec: _check_response ---------- *)

\* b'OK'
OK == <<79, 75>>

\* The `expected` argument of _send/_check_response: None, a bytes object
\* to compare with, or a format string.
ExpNone == [type |-> "None", lit |-> <<>>, fmt |-> ""]
ExpBytes(b) == [type |-> "bytes", lit |-> b, fmt |-> ""]
ExpStr(f) == [type |-> "str", lit |-> <<>>, fmt |-> f]

\* A value returned: type is "None", "bytes" (value is the byte string),
\* "tuple" (value is the tuple of unpacked fields) or "float".
Return(type, value) ==
    [kind |-> "return", exc |-> "", msg |-> "", prefix |-> "",
     cmd_code |-> -1, code |-> -1, type |-> type, value |-> value]

\* An exception raised: exc is the exception class
Raise(exc, msg) ==
    [kind |-> "raise", exc |-> exc, msg |-> msg, prefix |-> "",
     cmd_code |-> -1, code |-> -1, type |-> "", value |-> <<>>]

\* The SchunkError raised for a response with D-Len 2:
\* error_prefix + error_string, with the error code
DeviceError(prefix, cmd_code, error) ==
    [kind |-> "raise", exc |-> "SchunkError", msg |-> "device error",
     prefix |-> prefix, cmd_code |-> cmd_code, code |-> error,
     type |-> "", value |-> <<>>]

\* error_prefix without the key `command` in the dict
error_prefix_no_command(cmd_code, command) ==
    IF cmd_code = 136 THEN "CMD ERROR: "
    ELSE IF cmd_code = 137 THEN "CMD WARNING: "
    ELSE IF cmd_code = 138 THEN "CMD INFO: "
    ELSE "Command code: "

\* error_prefix of _check_response: the dict {0x88: .., 0x89: .., 0x8A: ..,
\* command: ""} (the last key wins) with the default "Command code 0x..: "
error_prefix(cmd_code, command) ==
    IF cmd_code = command THEN ""
    ELSE IF cmd_code = 136 THEN "CMD ERROR: "
    ELSE IF cmd_code = 137 THEN "CMD WARNING: "
    ELSE IF cmd_code = 138 THEN "CMD INFO: "
    ELSE "Command code: "

\* _check_response with the command code compared before D-Len 2 is
\* looked at
check_response_code_first(response, command, expected) ==
    IF Len(response) < 2 THEN
        Raise("SchunkError", "Not enough data in response")
    ELSE IF response[1] # Len(response) - 1 THEN
        Raise("SchunkError", "D-Len mismatch in response")
    ELSE IF response[2] # command THEN
        Raise("SchunkError", "Unexpected command code in response")
    ELSE IF response[1] = 2 THEN
        DeviceError(error_prefix(response[2], command), response[2],
                    response[3])
    ELSE
        LET payload == Drop(response, 2) IN
        IF expected.type = "bytes" THEN
            IF payload = expected.lit THEN Return("None", <<>>)
            ELSE Raise("SchunkError", "Unexpected response")
        ELSE IF expected.type = "str" THEN
            IF Len(payload) # calcsize(expected.fmt) THEN
                Raise("SchunkError", "Unexpected payload size in reponse")
            ELSE Return("tuple", unpack(expected.fmt, payload))
        ELSE Return("bytes", payload)

\* _check_response that takes a D-Len smaller than the number of bytes
\* after it
check_response_dlen_at_most(response, command, expected) ==
    IF Len(response) < 2 THEN
        Raise("SchunkError", "Not enough data in response")
    ELSE IF response[1] > Len(response) - 1 THEN
        Raise("SchunkError", "D-Len mismatch in response")
    ELSE IF response[1] = 2 THEN
        DeviceError(error_prefix(response[2], command), response[2],
                    response[3])
    ELSE IF response[2] # command THEN
        Raise("SchunkError", "Unexpected command code in response")
    ELSE
        LET payload == Drop(response, 2) IN
        IF expected.type = "bytes" THEN
            IF payload = expected.lit THEN Return("None", <<>>)
            ELSE Raise("SchunkError", "Unexpected response")
        ELSE IF expected.type = "str" THEN
            IF Len(payload) # calcsize(expected.fmt) THEN
                Raise("SchunkError", "Unexpected payload size in reponse")
            ELSE Return("tuple", unpack(expected.fmt, payload))
        ELSE Return("bytes", payload)

\* _check_response that takes every command code in the response
check_response_any_code(response, command, expected) ==
    IF Len(response) < 2 THEN
        Raise("SchunkError", "Not enough data in response")
    ELSE IF response[1] # Len(response) - 1 THEN
        Raise("SchunkError", "D-Len mismatch in response")
    ELSE IF response[1] = 2 THEN
        DeviceError(error_prefix(response[2], command), response[2],
                    response[3])
    ELSE
        LET payload == Drop(response, 2) IN
        IF expected.type = "bytes" THEN
            IF payload = expected.lit THEN Return("None", <<>>)
            ELSE Raise("SchunkError", "Unexpected response")
        ELSE IF expected.type = "str" THEN
            IF Len(payload) # calcsize(expected.fmt) THEN
                Raise("SchunkError", "Unexpected payload size in reponse")
            ELSE Return("tuple", unpack(expected.fmt, payload))
        ELSE Return("bytes", payload)

\* _check_response that compares the length of the parameters with the
\* length of the expected bytes
check_response_literal_len(response, command, expected) ==
    IF Len(response) < 2 THEN
        Raise("SchunkError", "Not enough data in response")
    ELSE IF response[1] # Len(response) - 1 THEN
        Raise("SchunkError", "D-Len mismatch in response")
    ELSE IF response[1] = 2 THEN
        DeviceError(error_prefix(response[2], command), response[2],
                    response[3])
    ELSE IF response[2] # command THEN
        Raise("SchunkError", "Unexpected command code in response")
    ELSE
        LET payload == Drop(response, 2) IN
        IF expected.type = "bytes" THEN
            IF Len(payload) = Len(expected.lit) THEN Return("None", <<>>)
            ELSE Raise("SchunkError", "Unexpected response")
        ELSE IF expected.type = "str" THEN
            IF Len(payload) # calcsize(expected.fmt) THEN
                Raise("SchunkError", "Unexpected payload size in reponse")
            ELSE Return("tuple", unpack(expected.fmt, payload))
        ELSE Return("bytes", payload)

\* _check_response(response, command, expected)
_check_response(response, command, expected) ==
    IF Len(response) < 2 THEN
        Raise("SchunkError", "Not enough data in response")
    ELSE IF response[1] # Len(response) - 1 THEN
        Raise("SchunkError", "D-Len mismatch in response")
    ELSE IF response[1] = 2 THEN
        DeviceError(error_prefix(response[2], command), response[2],
                    response[3])
    ELSE IF response[2] # command THEN
        Raise("SchunkError", "Unexpected command code in response")
    ELSE
        LET payload == Drop(response, 2) IN
        IF expected.type = "bytes" THEN
            IF payload = expected.lit THEN Return("None", <<>>)
            ELSE Raise("SchunkError", "Unexpected response")
        ELSE IF expected.type = "str" THEN
            IF Len(payload) # calcsize(expected.fmt) THEN
                Raise("SchunkError", "Unexpected payload size in reponse")
            ELSE Return("tuple", unpack(expected.fmt, payload))
        ELSE Return("bytes", payload)

(* ---------- the calls of Module ---------- *)

\* id of RS232Connection.__init__: the module ID of the device
ModuleId == 1

\* CMD STOP
CmdStop == 145

\* CMD POS REACHED
CmdPosReached == 148

\* A call of a Module method, reduced to what _send/_move_pos_helper get:
\* kind "send" goes through _send, kind "move" through _move_pos_helper.
Method(name, kind, command, data, expected, blocking) ==
    [name |-> name, kind |-> kind, command |-> command, data |-> data,
     expected |-> expected, blocking |-> blocking]

\* The positions passed to the move calls
Positions == {Float10, Float0}

\* The calls a client makes
Methods ==
    {Method("reference", "send", 146, <<>>, ExpBytes(OK), FALSE),
     Method("stop", "send", CmdStop, <<>>, ExpBytes(OK), FALSE),
     Method("toggle_impulse_message", "send", 231, <<>>, ExpNone, FALSE)}
    \cup {Method("move_pos", "move", 176, pack_f(p), ExpNone, FALSE) :
            p \in Positions}
    \cup {Method("move_pos_blocking", "move", 176, pack_f(p), ExpNone, TRUE) :
            p \in Positions}
    \cup {Method("move_pos_rel_blocking", "move", 184, pack_f(Float10),
                 ExpNone, TRUE)}

\* No call made yet
NoMethod == Method("", "", 0, <<>>, ExpNone, FALSE)

\* No outcome yet: the call is in progress, or none was made
NoOutcome ==
    [kind |-> "none", exc |-> "", msg |-> "", prefix |-> "",
     cmd_code |-> -1, code |-> -1, type |-> "", value |-> <<>>]

\* gen_send_data with a D-Len that counts the D-Len byte too
gen_send_data_self(command, data) ==
    <<Len(<<command>> \o data) + 1>> \o <<command>> \o data

\* _gen_send: prepend the command code, then D-Len
gen_send_data(command, data) ==
    <<Len(<<command>> \o data)>> \o <<command>> \o data

\* struct.pack('B', v) takes 0 <= v <= 255 and raises struct.error otherwise
pack_B_ok(v) == v \in 0..255

\* gen_send_result with a D-Len byte taken modulo 256 instead of the error
gen_send_result_wrap(command, data) ==
    Return("bytes",
           <<Len(<<command>> \o data) % 256>> \o <<command>> \o data)

\* _gen_send up to the opening of the connection: the data frame it hands
\* to the connection, or the struct.error of a D-Len that is no byte
gen_send_result(command, data) ==
    IF pack_B_ok(command) /\ pack_B_ok(Len(<<command>> \o data)) THEN
        Return("bytes", gen_send_data(command, data))
    ELSE Raise("struct.error", "ubyte format requires 0 <= number <= 255")

\* rs232_frame with the CRC16 high byte first
rs232_frame_big_endian(id, msg) ==
    LET m == <<5, id>> \o msg
        crc == crc16(m)
    IN m \o <<crc[2], crc[1]>>

\* RS232Connection.open: the RS232 frame around next_msg, 0x05 and the
\* module ID in front, the CRC16 of all that behind
rs232_frame(id, msg) ==
    LET m == <<5, id>> \o msg IN m \o crc16(m)

(* ---------- what the device may send ---------- *)

\* A response envelope as the module builds it
Envelope(msg_type, id, frame) ==
    LET m == <<msg_type, id>> \o frame IN m \o crc16(m)

\* The data frames [D-Len, command code, parameters] a device may answer
\* to the command c
Frames(c) ==
    {<<3, c>> \o OK,
     <<5, c, 205, 204, 4, 65>>,
     <<5, CmdPosReached, 0, 0, 32, 65>>,
     <<5, CmdPosReached, 205, 204, 4, 65>>,
     <<3, CmdPosReached>> \o OK,
     <<4, c, 79, 70, 70>>,
     <<3, c, 79, 78>>,
     <<1, c>>,
     <<0>>,
     <<2, 136, 217>>,
     <<2, 137, 16>>,
     <<2, 138, 5>>,
     <<2, c, 5>>,
     <<2, CmdPosReached, 1>>,
     <<2, 85, 0>>}

\* The 44 bytes a module answers to GET CONFIG without a parameter: module
\* type, order number, firmware, protocol and hardware version, date
StatusBlock ==
    <<80, 82, 45, 55, 48, 0, 0, 0, 0, 0, 0,
      0, 121, 0, 3, 0, 18, 2, 49, 49, 58, 50,
      50, 58, 50, 55, 32, 32, 74, 117, 108, 32, 32,
      51, 32, 50, 48, 48, 56, 63, 63, 63, 63, 63>>

\* The data frames a device may answer to GET CONFIG (0x80), SET CONFIG
\* (0x81), CHANGE USER (0xE3) and GET DETAILED ERROR INFO (0x96), besides
\* those of Frames
ReplyFrames(c) ==
    IF c = 128 THEN
        {<<3, 128, 6, 0>>, <<3, 128, 1, 12>>, <<3, 128, 2, 12>>,
         <<6, 128, 9, 0, 0, 32, 65>>, <<4, 128, 254, 1, 2>>,
         <<45, 128>> \o StatusBlock}
    ELSE IF c = 129 THEN
        {<<4, 129, 79, 75, 1>>, <<4, 129, 79, 75, 9>>,
         <<4, 129, 79, 75, 254>>, <<4, 129, 75, 79, 1>>,
         <<5, 129, 79, 75, 1, 0>>}
    ELSE IF c = 227 THEN
        {<<4, 227, 79, 75, 0>>, <<4, 227, 79, 75, 2>>,
         <<4, 227, 79, 75, 9>>, <<4, 227, 75, 79, 0>>}
    ELSE IF c = 150 THEN
        {<<7, 150, 136, 217, 0, 0, 0, 0>>, <<7, 150, 138, 5, 0, 0, 32, 65>>,
         <<7, 150, 85, 217, 0, 0, 0, 0>>}
    ELSE {}

\* s with its last byte changed in its lowest bit
FlipLast(s) == [s EXCEPT ![Len(s)] = Xor(s[Len(s)], 1)]

\* s with bit b (0 the lowest) of its byte i changed
FlipBit(s, i, b) == [s EXCEPT ![i] = Xor(s[i], 2 ^ b)]

\* The byte strings that may arrive on the serial line while the call of
\* command c reads: complete envelopes of either message type, envelopes
\* of another module or message type, damaged and cut off envelopes, and
\* nothing at all (timeout)
Incoming(c) ==
    {Envelope(t, ModuleId, f) : t \in {3, 7},
                                f \in Frames(c) \cup ReplyFrames(c)}
    \cup {Envelope(7, ModuleId + 1, <<3, c>> \o OK),
          Envelope(5, ModuleId, <<3, c>> \o OK),
          FlipLast(Envelope(7, ModuleId, <<3, c>> \o OK)),
          FlipLast(Envelope(7, ModuleId, <<5, CmdPosReached, 0, 0, 32, 65>>)),
          FlipBit(Envelope(3, ModuleId, <<2, 136, 217>>), 5, 0),
          FlipBit(Envelope(7, ModuleId, <<2, c, 5>>), 6, 7),
          Take(Envelope(7, ModuleId, <<3, c>> \o OK), 2),
          Take(Envelope(7, ModuleId, <<3, c>> \o OK), 5),
          <<>>}

\* The command codes the calls send
SentCommands == {128, 129, CmdStop, 146, 150, 176, 184, 227, 231}

\* Incoming(c) for each of them, computed once
IncomingOf == [c \in SentCommands |-> Incoming(c)]

(* ---------- state ---------- *)

VARIABLES
    pc,         \* where the call is: "idle" (no call in progress), "write"
                \* (in serial.write), "header" (in serial.read(3)), "rest"
                \* (in serial.read(dlen + crclen)), "yielded" (the connection
                \* has yielded a response, the caller runs)
    method,     \* the call in progress, or the last call
    args,       \* the arguments of that call, where the method looks at
                \* them before it sends anything
    frames,     \* number of responses the caller has taken from the generator
    next_msg,   \* the RS232 frame to write
    header,     \* the 3 header bytes read
    rx,         \* bytes received on the serial line and not read yet
    io,         \* the serial operations of the call, in order
    serialOpen, \* number of serial channels that are open
    received,   \* the responses yielded by the connection during the call
    outcome,    \* how the last call ended: a value returned or an exception
    raised,     \* the exception that was raised in the last call, if any
    calls,      \* number of calls made
    prev,       \* how the call before this one ended
    cin,        \* codec alone: the arguments of _check_response
    cout,       \* codec alone: what _check_response returned or raised
    ein,        \* encoding alone: the arguments of _gen_send
    eout,       \* encoding alone: the data frame made, or the exception
    fin,        \* framing alone: the bytes on the serial line
    fout,       \* framing alone: the response yielded, or the exception
    pin,        \* a function alone: its arguments
    pout        \* a function alone: what it returned

vars ==
    <<pc, method, args, frames, next_msg, header, rx, io, serialOpen,
      received, outcome, raised, calls, prev, cin, cout, ein, eout, fin, fout,
      pin, pout>>

sessionVars ==
    <<pc, method, args, frames, next_msg, header, rx, io, serialOpen,
      received, outcome, raised, calls, prev>>

codecVars == <<cin, cout, ein, eout, fin, fout, pin, pout>>

\* A serial operation: "open", "write" (data written), "read" (data
\* obtained), "close"
Ev(op, data) == [op |-> op, data |-> data]

\* The serial channel: the operations so far and the number of open channels
Chan == [io |-> io, open |-> serialOpen]

Log(ch, op, data) == [ch EXCEPT !.io = Append(@, Ev(op, data))]

\* `with self._serialmanager(...) as serial`: entering opens the channel
serial_enter(ch) ==
    [io |-> Append(ch.io, Ev("open", <<>>)), open |-> ch.open + 1]

\* leaving the with block, normally or by an exception, closes it
serial_exit(ch) ==
    [io |-> Append(ch.io, Ev("close", <<>>)), open |-> ch.open - 1]

\* State of the generator RS232Connection.open() (and of _gen_send around
\* it): "running" inside a serial operation, "suspended" at its yield
GenState ==
    IF pc = "yielded" THEN "suspended"
    ELSE IF pc \in {"write", "header", "rest"} THEN "running"
    ELSE "none"

\* gen_close with a close() that is not idempotent: the channel is closed
\* again although the generator has finished
gen_close_always(genState, ch) == serial_exit(ch)

\* gen_close without the with block around the serial channel: the
\* generator is closed, the channel is not
gen_close_never(genState, ch) == ch

\* contextlib.closing(gen): gen.close() raises GeneratorExit at the yield
\* of a suspended generator, which leaves its with block; on a generator
\* that has finished it does nothing
gen_close(genState, ch) ==
    IF genState = "suspended" THEN serial_exit(ch) ELSE ch

\* move_pos_except with an except clause that sends CMD STOP on every
\* exception, on a connection of its own as Module.stop() does
move_pos_except_stop(result, ch) ==
    [result |-> result,
     ch |-> serial_exit(Log(serial_enter(ch), "write",
                            rs232_frame(ModuleId,
                                        gen_send_data(CmdStop, <<>>))))]

\* move_pos_except with an except clause that turns an interrupt into a
\* SchunkError
move_pos_except_wrap(result, ch) ==
    [result |-> IF result.exc \in {"KeyboardInterrupt", "SystemExit"}
                THEN Raise("SchunkError", "interrupted") ELSE result,
     ch |-> ch]

\* move_pos_except with an except clause that sends the command of the
\* call once more after a SchunkError, on a connection of its own
move_pos_except_resend(result, ch) ==
    [result |-> result,
     ch |-> IF result.exc \in {"SchunkError", "SchunkRS232Error"}
            THEN serial_exit(Log(serial_enter(ch), "write",
                                 rs232_frame(ModuleId,
                                             gen_send_data(method.command,
                                                           method.data))))
            ELSE ch]

\* What _move_pos_helper does with an exception raised in its with block:
\* there is no except clause, so nothing is sent on the channel and the
\* same exception propagates
move_pos_except(result, ch) == [result |-> result, ch |-> ch]

\* after_yield without the test for None: whatever was sent is written
after_yield_write(msg) == "write"

\* after_yield with the write left out
after_yield_skip(msg) == "header"

\* `next_msg = yield response`: where the connection goes on when it is
\* resumed with msg; a message is written first, None (the empty message
\* here) goes straight to reading
after_yield(msg) == IF msg # <<>> THEN "write" ELSE "header"

\* yield_from that opens the connection anew for the next response
yield_from_reopen(ch) == [msg |-> <<>>, ch |-> serial_enter(serial_exit(ch))]

\* `yield from gen` in _gen_send: next(gen) of the caller resumes the
\* connection that is open, with None
yield_from(ch) == [msg |-> <<>>, ch |-> ch]

\* An exception or a return leaves the call: an exception raised in the
\* running connection leaves its with block first (the generator is then
\* finished), the caller's with blocks close the generators
Unwind(genState, result, ch) ==
    LET ch1 == IF genState = "running" THEN serial_exit(ch) ELSE ch
        gs1 == IF genState = "running" THEN "finished" ELSE genState
        h == IF result.kind = "raise" /\ method.kind = "move"
             THEN move_pos_except(result, ch1)
             ELSE [result |-> result, ch |-> ch1]
    IN [result |-> h.result, ch |-> gen_close(gs1, h.ch)]

\* The call ends with result
Done(result, ch0) ==
    LET u == Unwind(GenState, result, ch0) IN
    /\ pc' = "idle"
    /\ outcome' = u.result
    /\ raised' = IF result.kind = "raise" THEN result ELSE NoOutcome
    /\ io' = u.ch.io
    /\ serialOpen' = u.ch.open
    /\ next_msg' = <<>>
    /\ header' = <<>>
    /\ rx' = <<>>
    /\ UNCHANGED <<method, args, frames, received, calls, prev>>
    /\ UNCHANGED codecVars

\* How a call ended, in short
OutcomeClass(o) ==
    IF o.kind = "raise" THEN o.exc ELSE o.kind

(* ---------- the session ---------- *)

\* No arguments: the codec is not called alone
NoInput == [response |-> <<>>, command |-> 0, expected |-> ExpNone]

\* No arguments: _gen_send is not called alone
NoArgs == [command |-> 0, data |-> <<>>]

\* No bytes: the connection does not receive alone
NoLine == [line |-> <<>>, base |-> <<>>, byte |-> 0, bit |-> 0]

\* No arguments and no result: no function is called alone
NoPure == [fn |-> "none"]

Init ==
    /\ pc = "idle"
    /\ method = NoMethod
    /\ args = <<>>
    /\ frames = 0
    /\ next_msg = <<>>
    /\ header = <<>>
    /\ rx = <<>>
    /\ io = <<>>
    /\ serialOpen = 0
    /\ received = <<>>
    /\ outcome = NoOutcome
    /\ raised = NoOutcome
    /\ calls = 0
    /\ prev = "none"
    /\ cin = NoInput
    /\ cout = NoOutcome
    /\ ein = NoArgs
    /\ eout = NoOutcome
    /\ fin = NoLine
    /\ fout = NoOutcome
    /\ pin = NoPure
    /\ pout = NoPure

\* A method of Module is called: _send or _move_pos_helper starts the
\* generator _gen_send, which builds the data frame and opens the
\* connection; gen.send(data) makes the RS232 frame and calls serial.write
CallArgs(m, a) ==
    /\ pc = "idle"
    /\ calls < MaxCalls
    /\ LET ch == serial_enter([io |-> <<>>, open |-> serialOpen]) IN
        /\ io' = ch.io
        /\ serialOpen' = ch.open
    /\ next_msg' = rs232_frame(ModuleId, gen_send_data(m.command, m.data))
    /\ pc' = after_yield(next_msg')
    /\ method' = m
    /\ args' = a
    /\ frames' = 0
    /\ received' = <<>>
    /\ header' = <<>>
    /\ rx' = <<>>
    /\ outcome' = NoOutcome
    /\ raised' = NoOutcome
    /\ calls' = calls + 1
    /\ prev' = OutcomeClass(outcome)
    /\ UNCHANGED codecVars

\* A call of a method that passes its arguments on as they are
Call(m) == CallArgs(m, <<>>)

\* write_ok that is content when anything at all has been written
write_ok_any(n, msg) == n > 0

\* `serial.write(next_msg) != len(next_msg)` does not hold: n, the number
\* of bytes serial.write returned, is the length of the message
write_ok(n, msg) == n = Len(msg)

\* The serial operation "write" of msg, for which serial.write returned n
LogWrite(ch, msg, n) ==
    [ch EXCEPT !.io = Append(@, [op |-> "write", data |-> msg, n |-> n])]

\* serial.write(next_msg) returns the number of bytes written
SerialWrite ==
    /\ pc = "write"
    /\ \E n \in {Len(next_msg), Len(next_msg) - 1} :
        LET ch == LogWrite(Chan, next_msg, n) IN
        IF ~write_ok(n, next_msg) THEN
            Done(Raise("SchunkRS232Error", "Error sending data"), ch)
        ELSE
            /\ pc' = "header"
            /\ io' = ch.io
            /\ UNCHANGED <<method, args, frames, next_msg, header, rx,
                           serialOpen, received, outcome, raised, calls, prev>>
            /\ UNCHANGED codecVars

\* read_header without the comparison of the module ID
read_header_any_id(id, hdr) ==
    IF Len(hdr) < 3 THEN
        Raise("SchunkRS232Error", "Error reading response")
    ELSE IF hdr[1] \notin {3, 7} THEN
        Raise("SchunkRS232Error", "Unexpected message type in response")
    ELSE NoOutcome

\* read_header without the test of the number of bytes read: unpacking a
\* header of fewer than 3 bytes raises ValueError
read_header_unchecked_len(id, hdr) ==
    IF Len(hdr) < 3 THEN
        Raise("ValueError", "not enough values to unpack")
    ELSE IF hdr[2] # id THEN
        Raise("SchunkRS232Error", "Module ID mismatch")
    ELSE IF hdr[1] \notin {3, 7} THEN
        Raise("SchunkRS232Error", "Unexpected message type in response")
    ELSE NoOutcome

\* RS232Connection.open on the header serial.read(3) returned: the
\* exception it raises, or NoOutcome when the header is accepted
read_header(id, hdr) ==
    IF Len(hdr) < 3 THEN
        Raise("SchunkRS232Error", "Error reading response")
    ELSE IF hdr[2] # id THEN
        Raise("SchunkRS232Error", "Module ID mismatch")
    ELSE IF hdr[1] \notin {3, 7} THEN
        Raise("SchunkRS232Error", "Unexpected message type in response")
    ELSE NoOutcome

\* crc_ok that compares the first CRC byte only
crc_ok_low(hdr, the_rest, crc) == crc[1] = crc16(hdr \o the_rest)[1]

\* crc != crc16(header + the_rest) does not hold
crc_ok(hdr, the_rest, crc) == crc = crc16(hdr \o the_rest)

\* read_rest that yields the bytes before the CRC without D-Len in front
read_rest_no_dlen(hdr, got) ==
    LET dlen == hdr[3]
        crclen == 2
    IN
    IF Len(got) < dlen + crclen THEN
        Raise("SchunkRS232Error", "Not enough data in response")
    ELSE
        LET crc == Drop(got, Len(got) - crclen)
            the_rest == Take(got, Len(got) - crclen)
        IN
        IF ~crc_ok(hdr, the_rest, crc) THEN
            Raise("SchunkRS232Error", "CRC error in response")
        ELSE IF hdr[1] = 3 /\ dlen # 2 THEN
            Raise("SchunkRS232Error", "Message type 0x03")
        ELSE Return("bytes", the_rest)

\* read_rest without the test of D-Len for the message type 0x03: every
\* envelope with a good CRC is yielded
read_rest_any_0x03(hdr, got) ==
    LET dlen == hdr[3]
        crclen == 2
    IN
    IF Len(got) < dlen + crclen THEN
        Raise("SchunkRS232Error", "Not enough data in response")
    ELSE
        LET crc == Drop(got, Len(got) - crclen)
            the_rest == Take(got, Len(got) - crclen)
        IN
        IF ~crc_ok(hdr, the_rest, crc) THEN
            Raise("SchunkRS232Error", "CRC error in response")
        ELSE Return("bytes", <<dlen>> \o the_rest)

\* RS232Connection.open on the bytes serial.read(dlen + crclen) returned
\* after the header hdr: the exception it raises, or the response it
\* yields, D-Len in front of the bytes before the CRC
read_rest(hdr, got) ==
    LET dlen == hdr[3]
        crclen == 2
    IN
    IF Len(got) < dlen + crclen THEN
        Raise("SchunkRS232Error", "Not enough data in response")
    ELSE
        LET crc == Drop(got, Len(got) - crclen)
            the_rest == Take(got, Len(got) - crclen)
        IN
        IF ~crc_ok(hdr, the_rest, crc) THEN
            Raise("SchunkRS232Error", "CRC error in response")
        ELSE IF hdr[1] = 3 /\ dlen # 2 THEN
            Raise("SchunkRS232Error", "Message type 0x03")
        ELSE Return("bytes", <<dlen>> \o the_rest)

\* serial.read(3) returns the header, or fewer bytes on a timeout
SerialReadHeader ==
    /\ pc = "header"
    /\ \E env \in IncomingOf[method.command] :
        LET line == rx \o env
            hdr == Take(line, 3)
            ch == Log(Chan, "read", hdr)
        IN
        IF read_header(ModuleId, hdr).kind = "raise" THEN
            Done(read_header(ModuleId, hdr), ch)
        ELSE
            /\ pc' = "rest"
            /\ header' = hdr
            /\ rx' = Drop(line, 3)
            /\ io' = ch.io
            /\ UNCHANGED <<method, args, frames, next_msg, serialOpen, received,
                           outcome, raised, calls, prev>>
            /\ UNCHANGED codecVars

\* serial.read(dlen + crclen) returns the rest of the RS232 frame; after
\* the checks the response is yielded to the caller
SerialReadRest ==
    /\ pc = "rest"
    /\ LET dlen == header[3]
           crclen == 2
           got == Take(rx, dlen + crclen)
           ch == Log(Chan, "read", got)
       IN
       \E r \in {read_rest(header, got)} :
           IF r.kind = "raise" THEN
               Done(r, ch)
           ELSE
               /\ pc' = "yielded"
               /\ received' = Append(received, r.value)
               /\ rx' = Drop(rx, dlen + crclen)
               /\ io' = ch.io
               /\ UNCHANGED <<method, args, frames, next_msg, header,
                              serialOpen, outcome, raised, calls, prev>>
               /\ UNCHANGED codecVars

\* None as the sub-command byte of a parameter, and as its format
NoCmdByte == <<>>
NoFormat == "None"

\* _Config._params, as far as the calls tried go: the sub-command byte
\* and the format of a parameter
Param(cmd_byte, format_string) ==
    [cmd_byte |-> cmd_byte, format_string |-> format_string]

_params ==
    [name \in {"module_id", "unit_system", "max_velocity", "eeprom",
               "module_type", "firmware_version"} |->
        CASE name = "module_id" -> Param(<<1>>, "B")
          [] name = "unit_system" -> Param(<<6>>, "B")
          [] name = "max_velocity" -> Param(<<9>>, "f")
          [] name = "eeprom" -> Param(<<254>>, NoFormat)
          [] name = "module_type" -> Param(NoCmdByte, "8s4x2x2x2x26x")
          [] name = "firmware_version" -> Param(NoCmdByte, "8x4xH2x2x26x")]

\* The kind of value a format with one field unpacks to
field_type(format_string) ==
    CASE format_string \in {"<sB", "8x4xH2x2x26x"} -> "int"
      [] format_string = "<sf" -> "float"
      [] format_string = "8s4x2x2x2x26x" -> "bytes"

\* A value of a parameter as a value returned
Value(type, v) ==
    IF type = "bytes" THEN Return(type, v) ELSE Return(type, <<v>>)

\* config_get_result without the comparison of the first byte
config_get_result_no_echo(m, r) ==
    LET cmd_byte == m.data IN
    IF cmd_byte = NoCmdByte THEN
        Value(field_type(m.expected.fmt), r.value[1])
    ELSE IF m.expected = ExpNone THEN Return("bytes", Drop(r.value, 1))
    ELSE Value(field_type(m.expected.fmt), r.value[2])

\* _Config.__getattr__ on what _send returned: the first byte has to be
\* the sub-command byte (None and None without one), the value follows;
\* m.data is the sub-command byte that was sent
config_get_result(m, r) ==
    LET cmd_byte == m.data IN
    IF cmd_byte = NoCmdByte THEN
        Value(field_type(m.expected.fmt), r.value[1])
    ELSE IF m.expected = ExpNone THEN
        IF Take(r.value, 1) # cmd_byte THEN
            Raise("SchunkError", "Unexpected subcommand")
        ELSE Return("bytes", Drop(r.value, 1))
    ELSE
        IF r.value[1] # cmd_byte THEN
            Raise("SchunkError", "Unexpected subcommand")
        ELSE Value(field_type(m.expected.fmt), r.value[2])

\* config_set_result that looks at OK only
config_set_result_ok_only(m, r) ==
    IF Take(r.value[1], 2) # OK THEN Raise("SchunkError", "Error setting")
    ELSE Return("None", <<>>)

\* _Config.__setattr__ on what _send returned with '3s': it has to be OK
\* and the sub-command byte, the first byte of what was sent
config_set_result(m, r) ==
    IF r.value[1] # OK \o Take(m.data, 1) THEN
        Raise("SchunkError", "Error setting")
    ELSE Return("None", <<>>)

\* change_user on what _send returned with '2sB'
change_user_result(r) ==
    LET ok == r.value[1]
        user == r.value[2]
    IN IF ok # OK THEN Raise("SchunkError", "Error changing user")
       ELSE IF user = 0 THEN Return("str", <<"User">>)
       ELSE IF user = 1 THEN Return("str", <<"Diag">>)
       ELSE IF user = 2 THEN Return("str", <<"Profi">>)
       ELSE IF user = 3 THEN Return("str", <<"Advanced">>)
       ELSE Raise("KeyError", "")

\* get_detailed_error_info on what _send returned with '<BBf'
detailed_error_info_result(r) ==
    LET command == r.value[1] IN
    IF command = 136 THEN Return("tuple", <<"ERROR", r.value[2], r.value[3]>>)
    ELSE IF command = 137 THEN
        Return("tuple", <<"WARNING", r.value[2], r.value[3]>>)
    ELSE IF command = 138 THEN
        Return("tuple", <<"INFO", r.value[2], r.value[3]>>)
    ELSE Raise("KeyError", "")

\* What a method does with the value _send returned
post_process(m, r) ==
    IF r.kind = "return" /\ m.name = "toggle_impulse_message" THEN
        IF r.value = <<79, 78>> THEN Return("bool", <<1>>)
        ELSE IF r.value = <<79, 70, 70>> THEN Return("bool", <<0>>)
        ELSE Raise("SchunkError", "Unexpected response")
    ELSE IF r.kind = "return" /\ m.name = "config.__getattr__" THEN
        config_get_result(m, r)
    ELSE IF r.kind = "return" /\ m.name = "config.__setattr__" THEN
        config_set_result(m, r)
    ELSE IF r.kind = "return" /\ m.name = "change_user" THEN
        change_user_result(r)
    ELSE IF r.kind = "return" /\ m.name = "get_detailed_error_info" THEN
        detailed_error_info_result(r)
    ELSE r

\* est_time that takes every response that is not 4 bytes for OK
est_time_lenient(response, command) ==
    LET r == _check_response(response, command, ExpNone) IN
    IF r.kind = "raise" THEN r
    ELSE IF Len(r.value) = 4 THEN Return("float", <<unpack_f(r.value)>>)
    ELSE Return("float", <<Float0>>)

\* _move_pos_helper on the first response: the estimated time
est_time(response, command) ==
    LET r == _check_response(response, command, ExpNone) IN
    IF r.kind = "raise" THEN r
    ELSE IF r.value = OK THEN Return("float", <<Float0>>)
    ELSE IF Len(r.value) = 4 THEN Return("float", <<unpack_f(r.value)>>)
    ELSE Raise("SchunkError", "Unexpected reponse")

\* position_reached that takes the response whatever its command code
position_reached_any(response) ==
    LET c == IF Len(response) >= 2 THEN response[2] ELSE 0
        r == _check_response(response, c, ExpStr("<f"))
    IN IF r.kind = "raise" THEN r ELSE Return("float", <<r.value[1]>>)

\* _move_pos_helper on the second response: CMD POS REACHED
position_reached(response) ==
    LET r == _check_response(response, CmdPosReached, ExpStr("<f")) IN
    IF r.kind = "raise" THEN r ELSE Return("float", <<r.value[1]>>)

\* wait_next with a loop around next(gen) that reads on until a frame with
\* the command code 0x94 arrives
wait_next_until_reached(response) ==
    /\ Len(response) >= 2
    /\ response[1] = Len(response) - 1
    /\ response[1] # 2
    /\ response[2] # CmdPosReached

\* _move_pos_helper, once it has the response after the immediate one: does
\* it ask the generator for another?  next(gen) is called once, with no
\* loop around it, so whatever that response is, it is the last
wait_next(response) == FALSE

\* The caller takes the response the generator has yielded: _send checks
\* it and returns; _move_pos_helper checks it, returns the estimated time
\* or, if blocking, asks the generator for the next response with
\* next(gen), which sends nothing; then it returns the position
Resume ==
    /\ pc = "yielded"
    /\ LET response == received[Len(received)] IN
       IF method.kind = "send" THEN
           /\ Done(post_process(method,
                     _check_response(response, method.command,
                                     method.expected)), Chan)
       ELSE IF frames = 0 THEN
           LET r == est_time(response, method.command) IN
           IF r.kind = "raise" \/ ~method.blocking THEN
               /\ Done(r, Chan)
           ELSE
               LET y == yield_from(Chan) IN
               /\ pc' = after_yield(y.msg)
               /\ next_msg' = y.msg
               /\ io' = y.ch.io
               /\ serialOpen' = y.ch.open
               /\ frames' = 1
               /\ UNCHANGED <<method, args, header, rx, received, outcome,
                              raised, calls, prev>>
               /\ UNCHANGED codecVars
       ELSE IF wait_next(response) THEN
           LET y == yield_from(Chan) IN
           /\ pc' = after_yield(y.msg)
           /\ next_msg' = y.msg
           /\ io' = y.ch.io
           /\ serialOpen' = y.ch.open
           /\ UNCHANGED <<method, args, frames, header, rx, received,
                          outcome, raised, calls, prev>>
           /\ UNCHANGED codecVars
       ELSE
           /\ Done(position_reached(response), Chan)

\* KeyboardInterrupt or SystemExit surfaces: inside a serial operation of
\* the connection, or in the caller after the connection has yielded
Interrupt(exc) ==
    /\ pc \in {"write", "header", "rest", "yielded"}
    /\ Done(Raise(exc, ""), Chan)

Next ==
    \/ \E m \in Methods : Call(m)
    \/ SerialWrite
    \/ SerialReadHeader
    \/ SerialReadRest
    \/ Resume
    \/ \E exc \in {"KeyboardInterrupt", "SystemExit"} : Interrupt(exc)

Spec == Init /\ [][Next]_vars

\* The session with a serial channel whose write() and read() return (the
\* channel has a timeout) and a caller that goes on running: a serial
\* operation that has been started is completed, and a response that has
\* been yielded is taken
FairSpec ==
    /\ Init
    /\ [][Next]_vars
    /\ WF_vars(SerialWrite)
    /\ WF_vars(SerialReadHeader)
    /\ WF_vars(SerialReadRest)
    /\ WF_vars(Resume)

(* ---------- calls that look at their arguments ---------- *)

\* Fail with the connection opened and closed before the method raises
Fail_after_open(m, a, result) ==
    /\ pc = "idle"
    /\ calls < MaxCalls
    /\ pc' = "idle"
    /\ method' = m
    /\ args' = a
    /\ outcome' = result
    /\ raised' = result
    /\ io' = <<Ev("open", <<>>), Ev("close", <<>>)>>
    /\ frames' = 0
    /\ received' = <<>>
    /\ calls' = calls + 1
    /\ prev' = OutcomeClass(outcome)
    /\ UNCHANGED <<next_msg, header, rx, serialOpen>>
    /\ UNCHANGED codecVars

\* The method raises before _send or _gen_send is called: the call ends
\* with the exception, no connection is opened
Fail(m, a, result) ==
    /\ pc = "idle"
    /\ calls < MaxCalls
    /\ pc' = "idle"
    /\ method' = m
    /\ args' = a
    /\ outcome' = result
    /\ raised' = result
    /\ io' = <<>>
    /\ frames' = 0
    /\ received' = <<>>
    /\ calls' = calls + 1
    /\ prev' = OutcomeClass(outcome)
    /\ UNCHANGED <<next_msg, header, rx, serialOpen>>
    /\ UNCHANGED codecVars

\* '<s' + format_string
s_format(format_string) ==
    CASE format_string = "B" -> "<sB"
      [] format_string = "f" -> "<sf"

\* The call _Config.__getattr__ makes for a parameter
config_get(param) ==
    IF param.cmd_byte = NoCmdByte THEN
        Method("config.__getattr__", "send", 128, <<>>,
               ExpStr(param.format_string), FALSE)
    ELSE IF param.format_string = NoFormat THEN
        Method("config.__getattr__", "send", 128, param.cmd_byte,
               ExpNone, FALSE)
    ELSE
        Method("config.__getattr__", "send", 128, param.cmd_byte,
               ExpStr(s_format(param.format_string)), FALSE)

\* getattr(module.config, name)
ConfigGet(name) ==
    IF name \notin DOMAIN _params THEN
        Fail(config_get(Param(NoCmdByte, NoFormat)), <<name>>,
             Raise("AttributeError", "Invalid parameter"))
    ELSE CallArgs(config_get(_params[name]), <<name>>)

\* struct.pack('<' + format_string, value), or the bytes as they are for
\* a parameter without format
config_value(format_string, value) ==
    CASE format_string = NoFormat -> Return("bytes", value)
      [] format_string = "B" ->
            IF pack_B_ok(value) THEN Return("bytes", <<value>>)
            ELSE Raise("struct.error",
                       "ubyte format requires 0 <= number <= 255")
      [] format_string = "f" -> Return("bytes", pack_f(value))

\* The call _Config.__setattr__ makes for a sub-command byte and a value
config_set(cmd_byte, value) ==
    Method("config.__setattr__", "send", 129, cmd_byte \o value,
           ExpStr("3s"), FALSE)

\* _Config.__setattr__ before it packs and sends: the AttributeError of a
\* name that is not in _params or of a parameter without sub-command byte
config_set_check(name) ==
    IF name \notin DOMAIN _params THEN
        Raise("AttributeError", "Invalid parameter")
    ELSE IF _params[name].cmd_byte = NoCmdByte THEN
        Raise("AttributeError", "read-only")
    ELSE NoOutcome

\* setattr(module.config, name, value)
ConfigSet(name, value) ==
    LET check == config_set_check(name) IN
    IF check.kind = "raise" THEN
        Fail(config_set(<<>>, <<>>), <<name, value>>, check)
    ELSE
        LET v == config_value(_params[name].format_string, value) IN
        IF v.kind = "raise" THEN
            Fail(config_set(<<>>, <<>>), <<name, value>>, v)
        ELSE
            CallArgs(config_set(_params[name].cmd_byte, v.value),
                     <<name, value>>)

\* An argument of a move call: None, or a float
None == <<>>
Some(x) == <<x>>

RECURSIVE trailing_none_removed(_, _)
\* `while n > 1 and args[n - 1] is None: n -= 1`, from n on
trailing_none_removed(a, n) ==
    IF n > 1 /\ a[n] = None THEN trailing_none_removed(a, n - 1) ELSE n

RECURSIVE pack_floats(_)
\* the bytes of struct.pack('<{}f'.format(n), *a) for floats a
pack_floats(a) ==
    IF a = <<>> THEN <<>> ELSE pack_f(Head(a)[1]) \o pack_floats(Tail(a))

\* move_pos_data that leaves the arguments that are None out
move_pos_data_skip_none(a) ==
    LET n == trailing_none_removed(a, Len(a))
        some == SelectSeq(Take(a, n), LAMBDA x : x # None)
    IN Return("bytes", pack_floats(some))

\* _move_pos_helper before _gen_send: the arguments without the trailing
\* None packed as floats, or the struct.error of a None among them
move_pos_data(a) ==
    LET n == trailing_none_removed(a, Len(a)) IN
    IF \E i \in 1..n : a[i] = None THEN
        Raise("struct.error", "required argument is not a float")
    ELSE Return("bytes", pack_floats(Take(a, n)))

\* The arguments position, velocity, acceleration, current, jerk tried
MoveArgs ==
    {<<Some(Float10), None, None, None, None>>,
     <<Some(Float10), Some(Float0), None, None, None>>,
     <<Some(Float10), Some(Float0), Some(Float10), Some(Float0),
       Some(Float10)>>,
     <<Some(Float10), None, Some(Float10), None, None>>,
     <<Some(Float10), Some(Float0), None, None, Some(Float10)>>,
     <<None, None, None, None, None>>,
     <<None, Some(Float10), None, None, None>>}

\* move_pos(position, velocity, acceleration, current, jerk)
MovePos(a) ==
    LET data == move_pos_data(a) IN
    IF data.kind = "raise" THEN
        Fail(Method("move_pos", "move", 176, <<>>, ExpNone, FALSE), a, data)
    ELSE
        CallArgs(Method("move_pos", "move", 176, data.value, ExpNone, FALSE),
                 a)

\* change_user() and get_detailed_error_info()
UserMethods ==
    {Method("change_user", "send", 227, <<>>, ExpStr("2sB"), FALSE),
     Method("get_detailed_error_info", "send", 150, <<>>, ExpStr("<BBf"),
            FALSE)}

\* The names of parameters tried: those of _params and one that is not
\* a parameter
ParamNames == DOMAIN _params \cup {"foo"}

ApiNext ==
    \/ \E name \in ParamNames : ConfigGet(name)
    \/ \E value \in {12, 300} : ConfigSet("module_id", value)
    \/ ConfigSet("max_velocity", Float10)
    \/ ConfigSet("eeprom", <<1, 2>>)
    \/ \E name \in {"module_type", "firmware_version", "foo"} :
           ConfigSet(name, 12)
    \/ \E m \in UserMethods : Call(m)
    \/ \E a \in MoveArgs : MovePos(a)
    \/ SerialWrite
    \/ SerialReadHeader
    \/ SerialReadRest
    \/ Resume
    \/ \E exc \in {"KeyboardInterrupt", "SystemExit"} : Interrupt(exc)

SpecApi == Init /\ [][ApiNext]_vars

(* ---------- waiting for the position ---------- *)

\* Module.wait_until_position_reached(): class Module defines no such
\* method and no __getattr__, so looking the name up on a Module raises
\* AttributeError; no connection is opened and nothing is sent
wait_until_position_reached ==
    Raise("AttributeError",
          "'Module' object has no attribute 'wait_until_position_reached'")

\* The call mod.wait_until_position_reached() of the tests
WaitMethod ==
    Method("wait_until_position_reached", "wait", 0, <<>>, ExpNone, FALSE)

\* mod = Module(DummyConnection(exc_class)) followed by
\* mod.wait_until_position_reached(): args keeps exc_class, the exception
\* the connection of the test raises when it gets the third GET STATE
\* ("None": it answers that the position is reached)
test_wait(exc_class) ==
    Fail(WaitMethod, <<exc_class>>, wait_until_position_reached)

test_success == test_wait("None")

test_exception(exc_class) == test_wait(exc_class)

WaitNext ==
    \/ Next
    \/ test_success
    \/ \E exc_class \in {"KeyboardInterrupt", "SystemExit"} :
           test_exception(exc_class)

SpecWait == Init /\ [][WaitNext]_vars

(* ---------- the codec alone ---------- *)

\* Longest parameter string of the responses tried
MaxPayload == 2

\* The bytes the parameters of the responses tried are made of
PayloadBytes == {0, 5, 75, 79}

\* The command codes tried, sent and echoed: CMD ERROR, CMD WARNING,
\* CMD INFO, CMD POS REACHED, MOVE POS and a code that is none of these
CommandCodes == {136, 137, 138, CmdPosReached, 176, 85}

\* All byte strings over PayloadBytes of length n
ByteStrings(n) == [1..n -> PayloadBytes]

\* The parameter strings tried
Payloads ==
    UNION {ByteStrings(n) : n \in 0..MaxPayload} \cup {<<0, 0, 32, 65>>}

\* The responses tried: every D-Len byte, right or wrong, in front of a
\* command code and parameters, and the responses too short to have both
Responses ==
    {<<d, c>> \o pl : d \in 0..(MaxPayload + 2), c \in CommandCodes,
                      pl \in Payloads}
    \cup {<<5, c, 0, 0, 32, 65>> : c \in CommandCodes}
    \cup {<<7, c, 149, 0, 0, 0, 32, 65>> : c \in CommandCodes}
    \cup {<<2, c, 217>> : c \in CommandCodes}
    \cup {<<>>, <<0>>, <<1>>}

\* The arguments _check_response is tried with
CodecInputs ==
    [response : Responses,
     command : CommandCodes,
     expected : {ExpNone, ExpBytes(OK), ExpStr("<f"), ExpStr("<BBf")}]

CodecInit ==
    /\ pc = "idle"
    /\ method = NoMethod
    /\ args = <<>>
    /\ frames = 0
    /\ next_msg = <<>>
    /\ header = <<>>
    /\ rx = <<>>
    /\ io = <<>>
    /\ serialOpen = 0
    /\ received = <<>>
    /\ outcome = NoOutcome
    /\ raised = NoOutcome
    /\ calls = 0
    /\ prev = "none"
    /\ cin \in CodecInputs
    /\ cout = NoOutcome
    /\ ein = NoArgs
    /\ eout = NoOutcome
    /\ fin = NoLine
    /\ fout = NoOutcome
    /\ pin = NoPure
    /\ pout = NoPure

\* _check_response is applied to the arguments
Decode ==
    /\ cin # NoInput
    /\ cout = NoOutcome
    /\ cout' = _check_response(cin.response, cin.command, cin.expected)
    /\ UNCHANGED <<cin, ein, eout, fin, fout, pin, pout>>
    /\ UNCHANGED sessionVars

CodecNext == Decode

SpecCodec == CodecInit /\ [][CodecNext]_vars

(* ---------- encoding alone ---------- *)

\* The session before any call
SessionInit ==
    /\ pc = "idle"
    /\ method = NoMethod
    /\ args = <<>>
    /\ frames = 0
    /\ next_msg = <<>>
    /\ header = <<>>
    /\ rx = <<>>
    /\ io = <<>>
    /\ serialOpen = 0
    /\ received = <<>>
    /\ outcome = NoOutcome
    /\ raised = NoOutcome
    /\ calls = 0
    /\ prev = "none"

\* Parameter strings around the longest a D-Len byte can count
LongPayloads == {[i \in 1..n |-> 0] : n \in {253, 254, 255, 256}}

\* The arguments _gen_send is tried with
EncodeInputs ==
    [command : CommandCodes, data : Payloads \cup LongPayloads]

EncodeInit ==
    /\ SessionInit
    /\ cin = NoInput
    /\ cout = NoOutcome
    /\ ein \in EncodeInputs
    /\ eout = NoOutcome
    /\ fin = NoLine
    /\ fout = NoOutcome
    /\ pin = NoPure
    /\ pout = NoPure

\* _gen_send makes the data frame of the arguments
Encode ==
    /\ ein # NoArgs
    /\ eout = NoOutcome
    /\ eout' = gen_send_result(ein.command, ein.data)
    /\ UNCHANGED <<cin, cout, ein, fin, fout, pin, pout>>
    /\ UNCHANGED sessionVars

\* The data frame comes back as the response to the command that was sent
\* and is to be decoded as raw bytes
Loopback ==
    /\ eout.kind = "return"
    /\ cin = NoInput
    /\ cin' = [response |-> eout.value, command |-> ein.command,
               expected |-> ExpNone]
    /\ UNCHANGED <<cout, ein, eout, fin, fout, pin, pout>>
    /\ UNCHANGED sessionVars

EncodeNext ==
    \/ Encode
    \/ Loopback
    \/ Decode

SpecEncode == EncodeInit /\ [][EncodeNext]_vars

(* ---------- framing alone ---------- *)

\* One pass of the loop of RS232Connection.open without a message to
\* send, on the bytes that arrive on the serial line: serial.read(3),
\* the checks of the header, serial.read(dlen + crclen), the other checks
receive(id, line) ==
    LET hdr == Take(line, 3)
        h == read_header(id, hdr)
    IN IF h.kind = "raise" THEN h
       ELSE read_rest(hdr, Take(Drop(line, 3), hdr[3] + 2))

\* The data frames the envelopes tried carry: OK, a position, a device
\* error, no parameters, D-Len 0, and two parameter bytes that are the
\* CRC16 of the header and command code of the same frame with D-Len 1
FramerFrames ==
    {<<3, 176>> \o OK,
     <<5, CmdPosReached, 0, 0, 32, 65>>,
     <<2, 136, 217>>,
     <<1, 146>>,
     <<0>>,
     <<3, 176>> \o crc16(<<7, ModuleId, 1, 176>>)}

\* The envelopes tried, as the module sends them
BaseEnvelopes ==
    {Envelope(t, ModuleId, f) : t \in {3, 7}, f \in FramerFrames}

\* The envelopes of another module or with another message type
ForeignEnvelopes ==
    {Envelope(t, a, f) : t \in {3, 7}, a \in {0, ModuleId + 1, 255},
                         f \in FramerFrames}
    \cup {Envelope(t, ModuleId, f) : t \in {0, 5, 6, 8}, f \in FramerFrames}

\* What arrives on the line: line, that is the envelope base as it is,
\* with one bit changed (bit of byte, byte 0 for none) or cut off
Line(line, base, byte, bit) ==
    [line |-> line, base |-> base, byte |-> byte, bit |-> bit]

FramerInputs ==
    {Line(e, e, 0, 0) : e \in BaseEnvelopes \cup ForeignEnvelopes}
    \cup UNION {{Line(FlipBit(e, i, b), e, i, b) :
                    i \in 1..Len(e), b \in 0..7} : e \in BaseEnvelopes}
    \cup UNION {{Line(Take(e, k), e, 0, 0) : k \in 0..(Len(e) - 1)} :
                    e \in BaseEnvelopes}

FramerInit ==
    /\ SessionInit
    /\ cin = NoInput
    /\ cout = NoOutcome
    /\ ein = NoArgs
    /\ eout = NoOutcome
    /\ fin \in FramerInputs
    /\ fout = NoOutcome
    /\ pin = NoPure
    /\ pout = NoPure

\* The connection receives what is on the line
Receive ==
    /\ fin # NoLine
    /\ fout = NoOutcome
    /\ fout' = receive(ModuleId, fin.line)
    /\ UNCHANGED <<cin, cout, ein, eout, fin, pin, pout>>
    /\ UNCHANGED sessionVars

FramerNext == Receive

SpecFramer == FramerInit /\ [][FramerNext]_vars

(* ---------- the checksum alone ---------- *)

\* Longest byte string of the two a checksum is made of
MaxCrcLen == 2

\* The bytes these strings are made of
CrcBytes == {0, 1, 128, 255}

\* The arguments: a and b, for crc16(a + b) and crc16(a)
CrcInputs ==
    [fn : {"crc16"},
     a : UNION {[1..n -> CrcBytes] : n \in 0..MaxCrcLen},
     b : UNION {[1..n -> CrcBytes] : n \in 0..MaxCrcLen}]

CrcInit ==
    /\ SessionInit
    /\ cin = NoInput
    /\ cout = NoOutcome
    /\ ein = NoArgs
    /\ eout = NoOutcome
    /\ fin = NoLine
    /\ fout = NoOutcome
    /\ pin \in CrcInputs
    /\ pout = NoPure

\* crc16 is applied to a + b and to a
Checksum ==
    /\ pin.fn = "crc16"
    /\ pout.fn = "none"
    /\ pout' = [fn |-> "crc16", whole |-> crc16(pin.a \o pin.b),
                head |-> crc16(pin.a)]
    /\ UNCHANGED <<cin, cout, ein, eout, fin, fout, pin>>
    /\ UNCHANGED sessionVars

CrcNext == Checksum

SpecCrc == CrcInit /\ [][CrcNext]_vars

(* ---------- the status byte alone ---------- *)

\* statuses of decode_status: the names of the bits, bit 0 first
statuses ==
    <<"referenced", "moving", "program_mode", "warning", "error", "brake",
      "move_end", "position_reached">>

\* decode_status with the names given to the bits from the highest down
decode_status_high_first(status) ==
    [name \in {statuses[i] : i \in DOMAIN statuses} |->
        LET bit == (CHOOSE i \in DOMAIN statuses : statuses[i] = name) - 1
        IN BitAnd(status, 2 ^ (7 - bit)) # 0]

\* decode_status(status): the dict {name: bool(status & 2 ** bit)}
decode_status(status) ==
    [name \in {statuses[i] : i \in DOMAIN statuses} |->
        LET bit == (CHOOSE i \in DOMAIN statuses : statuses[i] = name) - 1
        IN BitAnd(status, 2 ^ bit) # 0]

\* The status bytes
StatusInputs == [fn : {"decode_status"}, status : 0..255]

StatusInit ==
    /\ SessionInit
    /\ cin = NoInput
    /\ cout = NoOutcome
    /\ ein = NoArgs
    /\ eout = NoOutcome
    /\ fin = NoLine
    /\ fout = NoOutcome
    /\ pin \in StatusInputs
    /\ pout = NoPure

\* decode_status is applied to the status byte
DecodeStatus ==
    /\ pin.fn = "decode_status"
    /\ pout.fn = "none"
    /\ pout' = [fn |-> "decode_status", flags |-> decode_status(pin.status)]
    /\ UNCHANGED <<cin, cout, ein, eout, fin, fout, pin>>
    /\ UNCHANGED sessionVars

StatusNext == DecodeStatus

SpecStatus == StatusInit /\ [][StatusNext]_vars

(* ---------- properties ---------- *)

Interrupts == {"KeyboardInterrupt", "SystemExit"}

SchunkErrors == {"SchunkError", "SchunkRS232Error"}

\* The serial operations of the call, by name
Ops == [i \in DOMAIN io |-> io[i].op]

\* Number of serial operations op in the call
NOps(op) == Cardinality({i \in DOMAIN io : io[i].op = op})

\* The data frame inside an RS232 frame that was written
FrameOf(msg) == SubSeq(msg, 3, Len(msg) - 2)

\* The data frames written in the call, by position in io
WrittenAt == {i \in DOMAIN io : io[i].op = "write"}

\* The frame of CMD STOP, 01 91
StopFrame == <<1, CmdStop>>

\* A stop command has been written in the call
StopWritten == \E i \in WrittenAt : FrameOf(io[i].data) = StopFrame

\* s is a prefix of t
IsPrefix(s, t) == Len(s) <= Len(t) /\ s = SubSeq(t, 1, Len(s))

\* The call has ended
Ended == pc = "idle" /\ method # NoMethod

\* C1: when KeyboardInterrupt or SystemExit surfaces while a blocking move
\* awaits the position-reached notification (the immediate response has
\* been received), a stop command frame 01 91 has been written to the
\* transport by the time the interrupt reaches the caller.
C1_StopWrittenOnInterrupt ==
    (Ended /\ method.blocking /\ frames = 1
           /\ outcome.kind = "raise" /\ outcome.exc \in Interrupts)
        => StopWritten

\* C2: the channel opened for a call is closed exactly once by the time the
\* call returns or raises (success, error, interrupt): during the call it
\* is open and not closed, afterwards it has been opened once and closed
\* once, the close being the last operation.
C2_ClosedExactlyOnce ==
    /\ method # NoMethod => NOps("open") = 1
    /\ NOps("close") <= 1
    /\ pc # "idle" => NOps("close") = 0 /\ serialOpen = 1
    /\ Ended => /\ outcome.kind \in {"return", "raise"}
                /\ NOps("close") = 1
                /\ io[Len(io)].op = "close"
                /\ serialOpen = 0

\* A call that an exception raised inside the running connection has ended:
\* the channel is closed once
C2_Witness ==
    /\ Ended
    /\ method.blocking
    /\ frames = 1
    /\ outcome.exc = "SchunkRS232Error"
    /\ NOps("close") = 1

\* C3: when a SchunkError occurs during a blocking move, before or after
\* the immediate response, no stop command is written and the SchunkError
\* reaches the caller.
C3_NoStopOnSchunkError ==
    (Ended /\ method.blocking /\ raised.exc \in SchunkErrors)
        => /\ ~StopWritten
           /\ outcome = raised

\* A blocking move that failed on its second response
C3_Witness ==
    /\ Ended
    /\ method.blocking
    /\ frames = 1
    /\ Len(received) = 2
    /\ raised.exc = "SchunkError"
    /\ outcome.exc = "SchunkError"
    /\ ~StopWritten

\* C4: an interrupt raised during a blocking move reaches the caller as the
\* same exception; it is not swallowed and not replaced.
C4_InterruptUnchanged ==
    (Ended /\ method.blocking /\ raised.exc \in Interrupts)
        => /\ outcome.kind = "raise"
           /\ outcome.exc = raised.exc

\* A blocking move interrupted while it waits for the notification
C4_Witness ==
    /\ Ended
    /\ method.blocking
    /\ frames = 1
    /\ raised.exc = "SystemExit"
    /\ outcome.exc = "SystemExit"

\* C5: in a successful blocking move exactly one frame is written, the
\* motion command, and it is written before anything is read; after the
\* immediate response there is no write.
C5_OneWriteInBlockingMove ==
    method.blocking =>
        /\ NOps("write") <= 1
        /\ frames = 1 => NOps("write") = 1
        /\ (Ended /\ outcome.kind = "return") =>
               /\ WrittenAt = {2}
               /\ FrameOf(io[2].data)
                      = <<1 + Len(method.data), method.command>>
                            \o method.data

\* A blocking move has returned the position
C5_Witness ==
    /\ Ended
    /\ method.blocking
    /\ outcome.kind = "return"
    /\ NOps("write") = 1
    /\ NOps("read") = 4

\* C6: a blocking move opens the transport once; both responses are read
\* from the same open channel, with no close or open between the reads.
C6_OneChannelInBlockingMove ==
    method.blocking =>
        /\ NOps("open") = 1
        /\ io[1].op = "open"
        /\ (frames = 1 /\ pc # "idle") =>
               NOps("close") = 0 /\ serialOpen = 1
        /\ (Ended /\ outcome.kind = "return") =>
               Ops = <<"open", "write", "read", "read", "read", "read",
                       "close">>

\* A blocking move is reading its second response on the channel on which
\* it has read the first
C6_Witness ==
    /\ pc = "rest"
    /\ method.blocking
    /\ frames = 1
    /\ Len(received) = 1
    /\ NOps("open") = 1
    /\ NOps("close") = 0

\* C7: a blocking move returns only after two responses: the first echoes
\* the motion command code, the second has command code 0x94; the value
\* returned is the float in the 4 parameter bytes of the second (little
\* endian), not the estimated time of the first.
C7_BlockingReturnsPosition ==
    (Ended /\ method.blocking /\ outcome.kind = "return") =>
        /\ Len(received) = 2
        /\ received[1][2] = method.command
        /\ received[2][2] = CmdPosReached
        /\ Len(received[2]) = 6
        /\ outcome.type = "float"
        /\ pack_f(outcome.value[1]) = SubSeq(received[2], 3, 6)
        /\ SubSeq(received[2], 3, 6) = <<0, 0, 32, 65>>
               => outcome.value = <<Float10>>

\* A blocking move has returned 10.0 after an estimated time of 8.3
C7_Witness ==
    /\ Ended
    /\ method.blocking
    /\ outcome.kind = "return"
    /\ received = <<<<5, method.command, 205, 204, 4, 65>>,
                    <<5, CmdPosReached, 0, 0, 32, 65>>>>
    /\ outcome.value = <<Float10>>

\* C8: a simple call writes once, then reads one response frame (header,
\* then the rest), then closes: its serial operations are, in this order,
\* open, write, read, read, close, cut short only by an error or an
\* interrupt; all of them when it returns.
C8_SimpleCallOneExchange ==
    (method # NoMethod /\ ~method.blocking) =>
        /\ \/ IsPrefix(Ops, <<"open", "write", "read", "read", "close">>)
           \/ /\ Ended
              /\ outcome.kind = "raise"
              /\ Ops[Len(Ops)] = "close"
              /\ IsPrefix(SubSeq(Ops, 1, Len(Ops) - 1),
                          <<"open", "write", "read", "read">>)
        /\ Len(received) <= 1
        /\ frames = 0
        /\ (Ended /\ outcome.kind = "return") =>
               /\ Ops = <<"open", "write", "read", "read", "close">>
               /\ Len(received) = 1
               /\ FrameOf(io[2].data)
                      = <<1 + Len(method.data), method.command>>
                            \o method.data

\* A simple call has returned
C8_Witness ==
    /\ Ended
    /\ ~method.blocking
    /\ method.kind = "send"
    /\ outcome.kind = "return"
    /\ Len(received) = 1

\* C9: over a sequence of calls at most one channel is open at any moment
\* and none between calls, also after calls that failed or were
\* interrupted.
C9_NoChannelLeak ==
    /\ serialOpen \in {0, 1}
    /\ pc = "idle" => serialOpen = 0
    /\ pc # "idle" => serialOpen = 1 /\ NOps("open") = 1

\* A call is in progress after a call that was interrupted
C9_Witness ==
    /\ calls = 2
    /\ prev \in Interrupts
    /\ pc = "header"
    /\ serialOpen = 1

\* The response is well formed: D-Len and command code are there and D-Len
\* counts the bytes after it
WellFormed(response) ==
    Len(response) >= 2 /\ response[1] = Len(response) - 1

\* C10: every well-formed response with D-Len 2 makes the call fail with
\* the device error, whatever the parameter byte and the echoed command
\* code; it is not returned as a one-byte result and not reported as an
\* unexpected command code.
C10_DLen2IsDeviceError ==
    (cout # NoOutcome /\ WellFormed(cin.response) /\ cin.response[1] = 2)
        => /\ cout.kind = "raise"
           /\ cout.exc = "SchunkError"
           /\ cout.msg = "device error"
           /\ cout.cmd_code = cin.response[2]
           /\ cout.code = cin.response[3]

\* A response with D-Len 2 that echoes the command that was sent
C10_Witness ==
    /\ cout.kind = "raise"
    /\ cout.msg = "device error"
    /\ cin.response = <<2, cin.command, 5>>
    /\ cin.command = 176

\* C11 as stated: for every command code and every parameter string,
\* the empty one and those of one byte included, decoding the encoded data
\* frame against the same command code as raw bytes returns the parameter
\* string.
C11_RoundTripEveryPayload ==
    (ein # NoArgs /\ cout # NoOutcome)
        => cout = Return("bytes", ein.data)

\* C11 amended: for every command code and every parameter string of at
\* most 254 bytes that is not one byte long, the data frame is made and
\* decoding it against the same command code as raw bytes returns the
\* parameter string; a parameter string of one byte makes a data frame
\* with D-Len 2, which decodes as a device error.
C11_RoundTripExceptOneByte ==
    /\ (ein # NoArgs /\ eout # NoOutcome /\ Len(ein.data) <= 254)
           => eout.kind = "return"
    /\ (ein # NoArgs /\ cout # NoOutcome /\ Len(ein.data) # 1)
           => cout = Return("bytes", ein.data)
    /\ (ein # NoArgs /\ cout # NoOutcome /\ Len(ein.data) = 1)
           => /\ cout.kind = "raise"
              /\ cout.msg = "device error"
              /\ cout.code = ein.data[1]

\* The empty parameter string has made the round trip
C11_Witness ==
    /\ ein # NoArgs
    /\ ein.data = <<>>
    /\ cin.response = <<1, ein.command>>
    /\ cout = Return("bytes", <<>>)

\* C17: every data frame handed to the transport is D-Len, command code,
\* parameters with D-Len = 1 + the number of parameter bytes; a parameter
\* string too long for a D-Len of one byte is rejected with an exception,
\* no frame is made of it.
C17_FrameLengthConsistent ==
    (ein # NoArgs /\ eout # NoOutcome) =>
        IF 1 + Len(ein.data) <= 255 THEN
            /\ eout.kind = "return"
            /\ Len(eout.value) = 2 + Len(ein.data)
            /\ eout.value[1] = 1 + Len(ein.data)
            /\ eout.value[2] = ein.command
            /\ SubSeq(eout.value, 3, Len(eout.value)) = ein.data
        ELSE
            /\ eout.kind = "raise"
            /\ eout.value = <<>>

\* The longest parameter string that fits has been framed
C17_Witness ==
    /\ Len(ein.data) = 254
    /\ eout.kind = "return"
    /\ eout.value[1] = 255
    /\ Len(eout.value) = 256

\* The bytes serial.read(dlen + crclen) is about to return
RestToRead == Take(rx, header[3] + 2)

\* All of them are there, and the last two are not the CRC16 of the header
\* and the bytes before them
TrailerWrong ==
    /\ Len(RestToRead) = header[3] + 2
    /\ SubSeq(RestToRead, Len(RestToRead) - 1, Len(RestToRead))
           # pack_H(crc16_loop(0, header
                     \o SubSeq(RestToRead, 1, Len(RestToRead) - 2)))

\* C12: a received RS232 frame whose last 2 bytes are not the CRC16 of the
\* bytes before them makes the call fail with the CRC error of the
\* connection; nothing of it is yielded to the caller, so the call neither
\* returns nor reports a device error.
C12_BadCrcFailsCall ==
    [][(pc = "rest" /\ TrailerWrong /\ raised'.exc \notin Interrupts)
           => /\ pc' = "idle"
              /\ outcome'.kind = "raise"
              /\ outcome'.exc = "SchunkRS232Error"
              /\ outcome'.msg = "CRC error in response"
              /\ received' = received]_vars

\* A call has failed on a frame of a device error with a wrong CRC
C12_Witness ==
    /\ Ended
    /\ outcome.msg = "CRC error in response"
    /\ received = <<>>
    /\ io[Len(io) - 1].op = "read"
    /\ Len(io[Len(io) - 1].data) = 4
    /\ io[Len(io) - 1].data[1] = 136

\* The envelope is complete and right: a message type of a response, the
\* module ID, as many bytes as D-Len says, the CRC16 of all before it
ValidEnvelope(e) ==
    /\ Len(e) >= 5
    /\ e[1] \in {3, 7}
    /\ e[2] = ModuleId
    /\ Len(e) = e[3] + 5
    /\ SubSeq(e, Len(e) - 1, Len(e))
           = pack_H(crc16_loop(0, SubSeq(e, 1, Len(e) - 2)))

\* One bit of an envelope has been changed that is received when it
\* arrives as it is, and the changed envelope was received
Flipped ==
    /\ fout # NoOutcome
    /\ fin.byte > 0
    /\ ValidEnvelope(fin.base)
    /\ fin.base[1] = 7 \/ fin.base[3] = 2

\* C13 as stated: for every valid response envelope and every single bit
\* of it, changing the bit makes the receive fail with the CRC error.
C13_EveryFlipIsCrcError ==
    Flipped => /\ fout.kind = "raise"
               /\ fout.msg = "CRC error in response"

\* C13 amended: for every valid response envelope and every single bit of
\* it outside the D-Len byte, changing the bit makes the receive fail with
\* a SchunkRS232Error and nothing is yielded: the CRC error for a bit of
\* the command code, the parameters or the CRC, the module ID error for a
\* bit of the module ID, the message type error or the CRC error for a bit
\* of the message type.
C13_FlipOutsideDLenFails ==
    (Flipped /\ fin.byte # 3) =>
        /\ fout.kind = "raise"
        /\ fout.exc = "SchunkRS232Error"
        /\ fout.value = <<>>
        /\ fin.byte >= 4 => fout.msg = "CRC error in response"
        /\ fin.byte = 2 => fout.msg = "Module ID mismatch"
        /\ fin.byte = 1 =>
               fout.msg = IF fin.line[1] \in {3, 7}
                          THEN "CRC error in response"
                          ELSE "Unexpected message type in response"

\* The highest bit of a parameter byte was changed: CRC error
C13_Witness ==
    /\ Flipped
    /\ fin.base = Envelope(7, ModuleId, <<5, CmdPosReached, 0, 0, 32, 65>>)
    /\ fin.byte = 8
    /\ fin.bit = 7
    /\ fout.msg = "CRC error in response"

\* A changed bit of D-Len that is not found: the envelope with D-Len 3 is
\* received as one with D-Len 1, its parameters taken for the CRC
C13_FlipAccepted ==
    /\ Flipped
    /\ fin.byte = 3
    /\ fin.base[3] = 3
    /\ fout = Return("bytes", <<1, 176>>)

\* C14: fewer than 3 header bytes, a module ID that is not the configured
\* one, a message type other than 0x03 and 0x07, and fewer than D-Len + 2
\* bytes after the header each make the receive fail with SchunkRS232Error.
C14_MalformedFails ==
    fout # NoOutcome =>
        /\ Len(fin.line) < 3 =>
               fout = Raise("SchunkRS232Error", "Error reading response")
        /\ (Len(fin.line) >= 3 /\ fin.line[2] # ModuleId) =>
               fout = Raise("SchunkRS232Error", "Module ID mismatch")
        /\ (Len(fin.line) >= 3 /\ fin.line[1] \notin {3, 7}) =>
               fout.kind = "raise" /\ fout.exc = "SchunkRS232Error"
        /\ (Len(fin.line) >= 3 /\ Len(fin.line) - 3 < fin.line[3] + 2) =>
               fout.kind = "raise" /\ fout.exc = "SchunkRS232Error"

\* An envelope of another module, complete and with the right CRC, has
\* been refused
C14_Witness ==
    /\ fin.line = Envelope(7, ModuleId + 1, <<3, 176>> \o OK)
    /\ fout = Raise("SchunkRS232Error", "Module ID mismatch")

\* A complete envelope with the module ID, the right CRC and message type
\* 0x03 or 0x07 has been received
ReceivedValid == fout # NoOutcome /\ ValidEnvelope(fin.line)

\* C15 as stated: every complete envelope with the configured module ID,
\* the right CRC and message type 0x03 or 0x07 is yielded as D-Len,
\* command code, parameters, for either message type and any D-Len.
C15_EveryValidEnvelopeYielded ==
    ReceivedValid =>
        fout = Return("bytes", SubSeq(fin.line, 3, Len(fin.line) - 2))

\* C15 amended: such an envelope is yielded as D-Len, command code,
\* parameters (header and CRC stripped) if its message type is 0x07, for
\* any D-Len, or if its message type is 0x03 and its D-Len is 2; with
\* message type 0x03 and another D-Len the receive fails with
\* SchunkRS232Error.
C15_ValidEnvelopeYielded ==
    ReceivedValid =>
        IF fin.line[1] = 7 \/ fin.line[3] = 2 THEN
            fout = Return("bytes", SubSeq(fin.line, 3, Len(fin.line) - 2))
        ELSE
            /\ fout.kind = "raise"
            /\ fout.exc = "SchunkRS232Error"

\* The envelope 07 01 03 B0 4F 4B + CRC has been yielded as 03 B0 4F 4B
C15_Witness ==
    /\ ReceivedValid
    /\ fin.line[1] = 7
    /\ fout = Return("bytes", <<3, 176, 79, 75>>)

\* The data frames of the calls a client makes and of the stop command
CallFrames ==
    {gen_send_data(m.command, m.data) : m \in Methods} \cup {StopFrame}

\* C16: every byte string written to the serial port is 0x05, the module
\* ID, the data frame [D-Len, command code, parameters] of the call, and
\* then the CRC16 of all the bytes before it in 2 bytes, low byte first.
C16_WrittenEnvelope ==
    \A i \in WrittenAt :
        LET w == io[i].data
            n == Len(w)
            crc == crc16_loop(0, SubSeq(w, 1, n - 2))
        IN /\ n >= 6
           /\ w[1] = 5
           /\ w[2] = ModuleId
           /\ FrameOf(w) \in CallFrames
           /\ FrameOf(w)[1] = n - 5
           /\ w[n - 1] = crc % 256
           /\ w[n] = crc \div 256

\* move_pos(10) has written 05 01 05 B0 00 00 20 41 48 80, in a call
\* after one that returned; what reference() writes is 05 01 01 92 D1 31
C16_Witness ==
    /\ prev = "return"
    /\ method.name = "move_pos"
    /\ WrittenAt # {}
    /\ \A i \in WrittenAt :
           io[i].data = <<5, 1, 5, 176, 0, 0, 32, 65, 72, 128>>
    /\ rs232_frame(ModuleId, gen_send_data(146, <<>>))
           = <<5, 1, 1, 146, 209, 49>>

\* C18: a response of fewer than 2 bytes, or whose D-Len is not the number
\* of bytes after it, makes _check_response raise the SchunkError of the
\* format; it is never a device error, an unexpected command code or a
\* value returned.
C18_MalformedIsFrameError ==
    (cout # NoOutcome /\ ~WellFormed(cin.response)) =>
        /\ cout.kind = "raise"
        /\ cout.exc = "SchunkError"
        /\ cout.msg = IF Len(cin.response) < 2
                      THEN "Not enough data in response"
                      ELSE "D-Len mismatch in response"

\* D-Len 2 and the command code that was sent, with two bytes after it:
\* the D-Len mismatch, not a device error
C18_Witness ==
    /\ cin.response = <<2, cin.command, 0, 0>>
    /\ cout = Raise("SchunkError", "D-Len mismatch in response")

\* A well-formed response whose D-Len is not 2 has been checked
Checked ==
    /\ cout # NoOutcome
    /\ WellFormed(cin.response)
    /\ cin.response[1] # 2

\* The bytes of the response after the command code
PayloadOf(response) == SubSeq(response, 3, Len(response))

\* C19: a well-formed response whose D-Len is not 2 makes _check_response
\* raise the unexpected command code error iff its command code is not
\* the command (CMD POS REACHED included); when it is the command, the
\* bytes after the command code, and no others, are the parameters that
\* are compared, unpacked or returned.
C19_UnexpectedOpcodeIffDiffers ==
    Checked =>
        /\ cin.response[2] # cin.command <=>
               cout = Raise("SchunkError",
                            "Unexpected command code in response")
        /\ (cin.response[2] = cin.command /\ cin.expected = ExpNone) =>
               cout = Return("bytes", PayloadOf(cin.response))
        /\ (cin.response[2] = cin.command /\ cout.type = "tuple") =>
               cout.value = unpack(cin.expected.fmt, PayloadOf(cin.response))

\* The response to a command is checked against CMD POS REACHED, in one
\* case with that command code, in the other with the command's
C19_Witness ==
    /\ Checked
    /\ cin.command = CmdPosReached
    /\ cin.expected = ExpStr("<f")
    /\ \/ /\ cin.response = <<5, CmdPosReached, 0, 0, 32, 65>>
          /\ cout = Return("tuple", <<Float10>>)
       \/ /\ cin.response = <<5, 176, 0, 0, 32, 65>>
          /\ cout.msg = "Unexpected command code in response"

\* C20: for a response with the command code of the command: with bytes
\* expected the call returns (None) iff the parameters are these bytes;
\* with a format string expected it raises the payload size error iff the
\* number of parameter bytes is not the size of the format, and returns
\* the unpacked fields otherwise; with nothing expected it returns the
\* parameters as they are.
C20_StructuralDecoding ==
    (Checked /\ cin.response[2] = cin.command) =>
        LET payload == PayloadOf(cin.response) IN
        /\ cin.expected.type = "bytes" =>
               /\ cout.kind = "return" <=> payload = cin.expected.lit
               /\ cout.kind = "return" => cout = Return("None", <<>>)
               /\ cout.kind # "return" =>
                      cout = Raise("SchunkError", "Unexpected response")
        /\ cin.expected.type = "str" =>
               /\ Len(payload) # calcsize(cin.expected.fmt) <=>
                      cout = Raise("SchunkError",
                                   "Unexpected payload size in reponse")
               /\ Len(payload) = calcsize(cin.expected.fmt) =>
                      cout.kind = "return" /\ cout.type = "tuple"
        /\ cin.expected.type = "None" =>
               cout = Return("bytes", payload)

\* Four parameter bytes where the format '<BBf' of six was expected
C20_Witness ==
    /\ Checked
    /\ cin.response = <<5, cin.command, 0, 0, 32, 65>>
    /\ cin.expected = ExpStr("<BBf")
    /\ cout = Raise("SchunkError", "Unexpected payload size in reponse")

\* _check_response has raised the device error of a response with D-Len 2
DeviceErrorRaised ==
    /\ cout # NoOutcome
    /\ WellFormed(cin.response)
    /\ cin.response[1] = 2

\* The error message names the command code of the response: it starts
\* with "Command code 0x..: "
OpcodeSurfaced(e) == e.prefix = "Command code: "

\* C21 as stated: in a response with D-Len 2 the command code 0x88 gives
\* ERROR, 0x89 WARNING, 0x8A INFO, and every other command code, the one
\* of the command that was sent included, is named in the error message.
C21_SeverityOrOpcodeAlways ==
    DeviceErrorRaised =>
        /\ cin.response[2] = 136 => cout.prefix = "CMD ERROR: "
        /\ cin.response[2] = 137 => cout.prefix = "CMD WARNING: "
        /\ cin.response[2] = 138 => cout.prefix = "CMD INFO: "
        /\ cin.response[2] \notin {136, 137, 138} => OpcodeSurfaced(cout)

\* C21 amended: in a response with D-Len 2 whose command code is not the
\* one of the command that was sent, 0x88 gives ERROR, 0x89 WARNING, 0x8A
\* INFO, and every other command code is named in the error message; if
\* the command code is the one of the command that was sent the message
\* is the error string alone, without severity and without command code.
\* The error code is the parameter byte in every case.
C21_SeverityUnlessEchoed ==
    DeviceErrorRaised =>
        /\ cout.kind = "raise"
        /\ cout.exc = "SchunkError"
        /\ cout.code = cin.response[3]
        /\ cin.response[2] = cin.command => cout.prefix = ""
        /\ cin.response[2] # cin.command =>
               /\ cin.response[2] = 136 => cout.prefix = "CMD ERROR: "
               /\ cin.response[2] = 137 => cout.prefix = "CMD WARNING: "
               /\ cin.response[2] = 138 => cout.prefix = "CMD INFO: "
               /\ cin.response[2] \notin {136, 137, 138} =>
                      OpcodeSurfaced(cout)

\* The response 02 88 D9 to MOVE POS: CMD ERROR with the error code 0xD9
C21_Witness ==
    /\ DeviceErrorRaised
    /\ cin.response = <<2, 136, 217>>
    /\ cin.command = 176
    /\ cout.prefix = "CMD ERROR: "
    /\ cout.code = 217

\* The response 02 B0 D9 to MOVE POS: the error string alone
C21_EchoedNoPrefix ==
    /\ DeviceErrorRaised
    /\ cin.response = <<2, 176, 217>>
    /\ cin.command = 176
    /\ cout.prefix = ""

\* The serial operations from position i of the log on are all "close"
OnlyCloseFrom(log, i) == \A j \in i..Len(log) : log[j].op = "close"

\* C22: when a call finds an error (SchunkError or SchunkRS232Error: a
\* short write or read, a wrong header, a wrong CRC, a malformed response,
\* an unexpected command code, a wrong payload, a device error), it writes
\* and reads nothing after the operation that showed the error: the
\* channel is only closed, and the call ends with that error for its
\* caller in the same step.
C22_NoIoAfterError ==
    [][(pc # "idle" /\ raised'.kind = "raise"
            /\ raised'.exc \in SchunkErrors)
          => /\ pc' = "idle"
             /\ calls' = calls
             /\ method' = method
             /\ outcome' = raised'
             /\ IsPrefix(io, io')
             /\ IF pc = "yielded"
                THEN OnlyCloseFrom(io', Len(io) + 1)
                ELSE /\ Len(io') > Len(io)
                     /\ io'[Len(io) + 1].op = (IF pc = "write" THEN "write"
                                               ELSE "read")
                     /\ OnlyCloseFrom(io', Len(io) + 2)]_vars

\* A blocking move has ended with the device error found in its second
\* response: one write, the channel closed, the error returned
C22_Witness ==
    /\ Ended
    /\ method.blocking
    /\ frames = 1
    /\ outcome.exc = "SchunkError"
    /\ outcome.msg = "device error"
    /\ NOps("write") = 1
    /\ NOps("close") = 1
    /\ io[Len(io)].op = "close"

\* The call has ended with an exception after the connection was opened,
\* and not with an interrupt: it failed on what was written or read
FailedOnIo ==
    /\ Ended
    /\ outcome.kind = "raise"
    /\ outcome.exc \notin Interrupts
    /\ io # <<>>

\* C23: every call that fails on what the device or the serial line
\* returned ends with SchunkError or SchunkRS232Error, never with an
\* exception of another class.
C23_DeviceFailuresAreSchunkErrors ==
    FailedOnIo => outcome.exc \in SchunkErrors

\* The call in progress, or the last call, reads or sets a parameter
ConfigCall == method.name \in {"config.__getattr__", "config.__setattr__"}

\* Its name is not in _params, or it is set and has no sub-command byte
Refused ==
    /\ ConfigCall
    /\ \/ args[1] \notin DOMAIN _params
       \/ /\ method.name = "config.__setattr__"
          /\ _params[args[1]].cmd_byte = NoCmdByte

\* C24: reading a parameter whose name is not registered, and setting one
\* that is not registered or has no sub-command byte, raises the
\* AttributeError of the invalid or read-only parameter; the connection is
\* not opened and nothing is written or read.
C24_RefusedBeforeIo ==
    Refused =>
        /\ pc = "idle"
        /\ outcome.kind = "raise"
        /\ outcome.exc = "AttributeError"
        /\ outcome.msg = IF args[1] \notin DOMAIN _params
                         THEN "Invalid parameter" ELSE "read-only"
        /\ io = <<>>
        /\ serialOpen = 0

\* config.module_type = 12 has been refused as read-only
C24_Witness ==
    /\ Refused
    /\ method.name = "config.__setattr__"
    /\ args[1] = "module_type"
    /\ outcome = Raise("AttributeError", "read-only")
    /\ io = <<>>

\* A parameter is being set, or was set, and the call got as far as the
\* connection
SetSent == method.name = "config.__setattr__" /\ io # <<>>

\* The value of the call in the format of its parameter: one byte for
\* module_id, a float for max_velocity, the bytes themselves for eeprom
WireValue ==
    CASE args[1] = "module_id" -> <<args[2]>>
      [] args[1] = "max_velocity" -> pack_f(args[2])
      [] args[1] = "eeprom" -> args[2]

\* The last response the connection yielded
LastResponse == received[Len(received)]

\* C25: setting a registered parameter that has a sub-command byte writes
\* one frame of SET CONFIG (0x81) whose parameters are the sub-command
\* byte and the value in the format of the parameter; the call returns
\* only if the parameters of the response are OK and that sub-command
\* byte, and every other response with three parameter bytes makes it
\* raise the SchunkError of the failed setting.
C25_SetConfig ==
    SetSent =>
        LET cmd_byte == _params[args[1]].cmd_byte
            sent == cmd_byte \o WireValue
        IN
        /\ NOps("write") <= 1
        /\ pc \notin {"idle", "write"} => NOps("write") = 1
        /\ \A i \in WrittenAt :
               FrameOf(io[i].data) = <<Len(sent) + 1, 129>> \o sent
        /\ (Ended /\ outcome.kind = "return") =>
               /\ outcome = Return("None", <<>>)
               /\ LastResponse = <<4, 129>> \o OK \o cmd_byte
        /\ (Ended /\ received # <<>> /\ outcome.exc \notin Interrupts
                  /\ Len(LastResponse) = 5 /\ LastResponse[1] = 4
                  /\ LastResponse[2] = 129) =>
               IF PayloadOf(LastResponse) = OK \o cmd_byte
               THEN outcome = Return("None", <<>>)
               ELSE outcome = Raise("SchunkError", "Error setting")

\* config.module_id = 12 has written 03 81 01 0C, and the response
\* 04 81 'OK' 09 names another sub-command byte: the setting has failed
C25_Witness ==
    /\ SetSent
    /\ Ended
    /\ args[1] = "module_id"
    /\ args[2] = 12
    /\ \E i \in WrittenAt : FrameOf(io[i].data) = <<3, 129, 1, 12>>
    /\ received = <<<<4, 129, 79, 75, 9>>>>
    /\ outcome = Raise("SchunkError", "Error setting")

\* config.module_id = 12 has been acknowledged with 04 81 'OK' 01
C25_Acknowledged ==
    /\ SetSent
    /\ Ended
    /\ args[1] = "module_id"
    /\ received = <<<<4, 129, 79, 75, 1>>>>
    /\ outcome = Return("None", <<>>)

\* A parameter is being read, or was read, and the call got as far as the
\* connection
GetSent == method.name = "config.__getattr__" /\ io # <<>>

\* The value a parameter with a sub-command byte has in the response:
\* what follows the sub-command byte, in the format of the parameter
EchoedValue(response) ==
    CASE args[1] \in {"module_id", "unit_system"} ->
            Return("int", <<response[4]>>)
      [] args[1] = "max_velocity" ->
            Return("float", <<unpack_f(SubSeq(response, 4, 7))>>)
      [] args[1] = "eeprom" ->
            Return("bytes", SubSeq(response, 4, Len(response)))

\* The value a parameter without sub-command byte has in the response
\* with the 44 bytes: the first 8 bytes, or the 2 bytes after the first
\* 12, low byte first
BlockValue(response) ==
    CASE args[1] = "module_type" -> Return("bytes", SubSeq(response, 3, 10))
      [] args[1] = "firmware_version" ->
            Return("int", <<response[15] + (256 * response[16])>>)

\* C26: reading a parameter with a sub-command byte writes GET CONFIG
\* (0x80) with that byte; the call returns only if the first parameter
\* byte of the response is the same byte, and returns the value after
\* it; reading a parameter without sub-command byte writes GET CONFIG
\* without parameters and returns its field of the 44 bytes of the
\* response.
C26_GetConfig ==
    GetSent =>
        LET cmd_byte == _params[args[1]].cmd_byte IN
        /\ NOps("write") <= 1
        /\ pc \notin {"idle", "write"} => NOps("write") = 1
        /\ \A i \in WrittenAt :
               FrameOf(io[i].data) = <<Len(cmd_byte) + 1, 128>> \o cmd_byte
        /\ (Ended /\ outcome.kind = "return" /\ cmd_byte # NoCmdByte) =>
               /\ Len(LastResponse) >= 3
               /\ <<LastResponse[3]>> = cmd_byte
               /\ outcome = EchoedValue(LastResponse)
        /\ (Ended /\ outcome.kind = "return" /\ cmd_byte = NoCmdByte) =>
               /\ Len(LastResponse) = 46
               /\ outcome = BlockValue(LastResponse)
        /\ (Ended /\ received # <<>> /\ outcome.exc \notin Interrupts
                  /\ cmd_byte # NoCmdByte
                  /\ WellFormed(LastResponse) /\ LastResponse[1] # 2
                  /\ LastResponse[2] = 128
                  /\ (Len(LastResponse) < 3 \/ <<LastResponse[3]>> # cmd_byte))
               => /\ outcome.kind = "raise"
                  /\ outcome.exc = "SchunkError"

\* config.firmware_version has written 01 80 and returned 121 (1.21)
C26_Witness ==
    /\ GetSent
    /\ Ended
    /\ args[1] = "firmware_version"
    /\ \E i \in WrittenAt : FrameOf(io[i].data) = <<1, 128>>
    /\ outcome.type = "int"
    /\ outcome = Return("int", <<121>>)

\* config.module_id has written 02 80 01, and the response 03 80 02 0C
\* names another sub-command byte: SchunkError
C26_WrongEcho ==
    /\ GetSent
    /\ Ended
    /\ args[1] = "module_id"
    /\ \E i \in WrittenAt : FrameOf(io[i].data) = <<2, 128, 1>>
    /\ received = <<<<3, 128, 2, 12>>>>
    /\ outcome = Raise("SchunkError", "Unexpected subcommand")

\* The number two bytes stand for, low byte first
FromLE(b) == b[1] + (256 * b[2])

RECURSIVE Steps(_, _, _)
\* crc16_increment applied to acc and the first k bytes of b, one by one
Steps(acc, b, k) ==
    IF k = 0 THEN acc ELSE crc16_increment(Steps(acc, b, k - 1), b[k])

\* C27: the CRC16 of a followed by b is what crc16_increment makes of the
\* CRC16 of a and the bytes of b, fed one by one; the CRC16 of the empty
\* string is 0, and every value on the way is in 0..0xFFFF.
C27_ChecksumIncremental ==
    pout.fn = "crc16" =>
        /\ FromLE(pout.whole) = Steps(FromLE(pout.head), pin.b, Len(pin.b))
        /\ pin.a = <<>> => pout.head = <<0, 0>>
        /\ \A k \in 0..Len(pin.b) :
               Steps(FromLE(pout.head), pin.b, k) \in 0..65535
        /\ \A k \in 0..Len(pin.a) : Steps(0, pin.a, k) \in 0..65535

\* The CRC16 of 01 80 followed by FF 00 has been made of the CRC16 of 01 80
C27_Witness ==
    /\ pout.fn = "crc16"
    /\ pin.a = <<1, 128>>
    /\ pin.b = <<255, 0>>
    /\ pout.whole = crc16(<<1, 128, 255, 0>>)
    /\ pout.head # pout.whole

\* Bit k of the byte v is set
BitSet(v, k) == (v \div (2 ^ k)) % 2 = 1

\* C28: for every status byte, decode_status returns the eight flags
\* referenced, moving, program_mode, warning, error, brake, move_end and
\* position_reached and no others, each true iff bit 0, 1, .., 7 of the
\* byte is set.
C28_StatusFlags ==
    pout.fn = "decode_status" =>
        /\ DOMAIN pout.flags =
               {"referenced", "moving", "program_mode", "warning", "error",
                "brake", "move_end", "position_reached"}
        /\ pout.flags.referenced <=> BitSet(pin.status, 0)
        /\ pout.flags.moving <=> BitSet(pin.status, 1)
        /\ pout.flags.program_mode <=> BitSet(pin.status, 2)
        /\ pout.flags.warning <=> BitSet(pin.status, 3)
        /\ pout.flags.error <=> BitSet(pin.status, 4)
        /\ pout.flags.brake <=> BitSet(pin.status, 5)
        /\ pout.flags.move_end <=> BitSet(pin.status, 6)
        /\ pout.flags.position_reached <=> BitSet(pin.status, 7)

\* The status byte 0x03 has been decoded: referenced and moving
C28_Witness ==
    /\ pout.fn = "decode_status"
    /\ pin.status = 3
    /\ pout.flags.referenced
    /\ pout.flags.moving
    /\ ~pout.flags.position_reached

\* A move that does not block has ended, not by an interrupt, on a
\* well-formed response with the command code of the move and a D-Len
\* other than 2
MoveAnswered ==
    /\ Ended
    /\ method.kind = "move"
    /\ ~method.blocking
    /\ received # <<>>
    /\ outcome.exc \notin Interrupts
    /\ WellFormed(LastResponse)
    /\ LastResponse[1] # 2
    /\ LastResponse[2] = method.command

\* C29: a move that does not block returns 0.0 if the parameters of the
\* response are OK, the float the 4 bytes stand for, low byte first, if
\* there are exactly 4, and raises SchunkError for any other parameters.
C29_EstimatedTime ==
    MoveAnswered =>
        LET payload == PayloadOf(LastResponse) IN
        IF payload = <<79, 75>> THEN outcome = Return("float", <<Float0>>)
        ELSE IF Len(payload) = 4 THEN
            /\ outcome.type = "float"
            /\ outcome = Return("float", <<unpack_f(payload)>>)
            /\ pack_f(outcome.value[1]) = payload
        ELSE
            /\ outcome.kind = "raise"
            /\ outcome.exc = "SchunkError"

\* move_pos(10) answered with 05 B0 CD CC 04 41 has returned 8.3
\* (0x4104CCCD)
C29_Witness ==
    /\ MoveAnswered
    /\ method.name = "move_pos"
    /\ LastResponse = <<5, 176, 205, 204, 4, 65>>
    /\ outcome = Return("float", <<[s |-> 0, e |-> 130, m |-> 314573]>>)

\* move_pos(10) answered with 04 B0 'OFF' has raised SchunkError
C29_OtherShape ==
    /\ MoveAnswered
    /\ LastResponse = <<4, 176, 79, 70, 70>>
    /\ outcome = Raise("SchunkError", "Unexpected reponse")

\* move_pos has been called with its five arguments
MoveCalled == method.name = "move_pos" /\ Len(args) = 5

\* The last argument that is not None, the position if all are None
LastSpecified ==
    IF \A i \in 1..5 : args[i] = None THEN 1
    ELSE CHOOSE i \in 1..5 :
             args[i] # None /\ \A j \in (i + 1)..5 : args[j] = None

\* An argument up to the last one that is not None is None
Gap == \E i \in 1..LastSpecified : args[i] = None

RECURSIVE Packed(_, _)
\* The first k arguments as floats of 4 bytes, low byte first
Packed(a, k) ==
    IF k = 0 THEN <<>> ELSE Packed(a, k - 1) \o pack_f(a[k][1])

\* C30: a move call sends the arguments up to the last one that is not
\* None, the position at least, each as a float of 4 bytes, low byte
\* first, and no others; if one of these arguments is None the call
\* raises before the connection is opened, and nothing is written.
C30_MoveArguments ==
    MoveCalled =>
        IF Gap THEN
            /\ pc = "idle"
            /\ outcome.kind = "raise"
            /\ outcome.exc = "struct.error"
            /\ io = <<>>
            /\ serialOpen = 0
        ELSE
            /\ io # <<>>
            /\ method.data = Packed(args, LastSpecified)
            /\ Len(method.data) = 4 * LastSpecified
            /\ NOps("write") <= 1
            /\ pc \notin {"idle", "write"} => NOps("write") = 1
            /\ \A i \in WrittenAt :
                   FrameOf(io[i].data)
                       = <<(4 * LastSpecified) + 1, 176>> \o method.data

\* move_pos(10, 0) has written 09 B0 00 00 20 41 00 00 00 00
C30_Witness ==
    /\ MoveCalled
    /\ args = <<Some(Float10), Some(Float0), None, None, None>>
    /\ \E i \in WrittenAt :
           FrameOf(io[i].data) = <<9, 176, 0, 0, 32, 65, 0, 0, 0, 0>>

\* move_pos(10, None, 10) has raised and nothing was opened
C30_GapRefused ==
    /\ MoveCalled
    /\ args = <<Some(Float10), None, Some(Float10), None, None>>
    /\ outcome.exc = "struct.error"
    /\ io = <<>>

\* C31: when KeyboardInterrupt or SystemExit surfaces in a blocking move
\* before its immediate response has been received (while the motion
\* command is written or its response is read), a stop command frame 01 91
\* has been written by the time the interrupt reaches the caller.
C31_StopWrittenOnEarlyInterrupt ==
    (Ended /\ method.blocking /\ frames = 0
           /\ outcome.kind = "raise" /\ outcome.exc \in Interrupts)
        => StopWritten

\* The call is the wait for the position of the tests
WaitCalled == Ended /\ method.name = "wait_until_position_reached"

\* The last frame written in the call is the stop command
StopWrittenLast ==
    /\ WrittenAt # {}
    /\ \E i \in WrittenAt :
        /\ FrameOf(io[i].data) = StopFrame
        /\ \A j \in WrittenAt : j <= i

\* C32: wait_until_position_reached queries the state (GET STATE, 0x95)
\* until the status byte reports position reached, skips an unsolicited
\* position-reached frame, returns the reached position (0.0 with the
\* connection of the test) and never sends a stop command on this path.
C32_WaitReturnsPosition ==
    (WaitCalled /\ args = <<"None">>)
        => /\ outcome = Return("float", <<Float0>>)
           /\ WrittenAt # {}
           /\ ~StopWritten

\* C33: when KeyboardInterrupt or SystemExit surfaces during
\* wait_until_position_reached (the connection of the test raises it on
\* the third state query), the interrupt reaches the caller after a stop
\* command frame 01 91 has been sent, and no state query is written after
\* the stop.
C33_StopWrittenOnWaitInterrupt ==
    (WaitCalled /\ args # <<"None">>)
        => /\ outcome.kind = "raise"
           /\ outcome.exc = args[1]
           /\ StopWrittenLast

\* The blocking move has ended after its immediate response, on a response
\* that is well formed, and not by an interrupt, a transport error or an
\* error reported by the device
WaitEnded ==
    /\ Ended
    /\ method.blocking
    /\ frames = 1
    /\ Len(received) >= 2
    /\ WellFormed(received[Len(received)])
    /\ outcome.exc \notin Interrupts \cup {"SchunkRS232Error"}
    /\ outcome.msg # "device error"

\* C34 as claimed: after the immediate response of a blocking move the
\* session reads frames until the notification with opcode 0x94 arrives; a
\* frame with another opcode received in between does not end the wait, so
\* a wait that has ended has ended on a frame with opcode 0x94.
C34_WaitsUntilPosReached ==
    WaitEnded => received[Len(received)][2] = CmdPosReached

\* C34, amended: after the immediate response of a blocking move the
\* session reads exactly one more frame from the open channel, without
\* writing, and that frame ends the call: a frame with opcode 0x94 and a
\* 4-byte payload gives the position, a frame with another opcode (and a
\* length byte other than 2) makes the call fail with "Unexpected command
\* code in response".
C34_OneFrameEndsWait ==
    (method.blocking /\ frames = 1) =>
        /\ Len(received) <= 2
        /\ NOps("write") = 1
        /\ (pc = "yielded") => Len(received) = 2
        /\ (Ended /\ Len(received) = 2 /\ outcome.exc \notin Interrupts
                  /\ WellFormed(received[2]) /\ received[2][1] # 2) =>
               /\ received[2][2] # CmdPosReached =>
                      /\ outcome.kind = "raise"
                      /\ outcome.exc = "SchunkError"
                      /\ outcome.msg = "Unexpected command code in response"
               /\ (received[2][2] = CmdPosReached /\ received[2][1] = 5) =>
                      /\ outcome.kind = "return"
                      /\ pack_f(outcome.value[1]) = SubSeq(received[2], 3, 6)

\* A blocking move has failed on a second frame that echoes the motion
\* command instead of carrying the opcode 0x94
C34_Witness ==
    /\ Ended
    /\ method.blocking
    /\ frames = 1
    /\ Len(received) = 2
    /\ received[2] = <<5, method.command, 205, 204, 4, 65>>
    /\ outcome.exc = "SchunkError"
    /\ outcome.msg = "Unexpected command code in response"
    /\ Ops = <<"open", "write", "read", "read", "read", "read", "close">>

\* The call has returned a value or raised, and its channel is closed
Finished ==
    /\ pc = "idle"
    /\ outcome.kind \in {"return", "raise"}
    /\ serialOpen = 0
    /\ io[Len(io)].op = "close"

\* In this step serial.read(3) returns fewer than 3 bytes: it has timed out
HeaderTimeout ==
    /\ pc = "header"
    /\ Len(io') > Len(io)
    /\ io'[Len(io) + 1].op = "read"
    /\ Len(io'[Len(io) + 1].data) < 3

\* C35: provided every transport write and read eventually returns
\* (possibly short, on a timeout), every call, simple or blocking,
\* eventually returns a value or raises, and by then its channel is closed;
\* a blocking move whose notification does not arrive (the read of its
\* header times out) ends with a transport error.
C35_EveryCallEnds ==
    /\ (pc # "idle") ~> Finished
    /\ [][(HeaderTimeout /\ method.blocking /\ frames = 1)
              => /\ pc' = "idle"
                 /\ outcome'.kind = "raise"
                 /\ outcome'.exc = "SchunkRS232Error"
                 /\ outcome'.msg = "Error reading response"
                 /\ serialOpen' = 0]_vars

\* A blocking move has got its immediate response and no notification: it
\* has ended with the transport error of the read that timed out
C35_Witness ==
    /\ Ended
    /\ method.blocking
    /\ frames = 1
    /\ Len(received) = 1
    /\ outcome.exc = "SchunkRS232Error"
    /\ outcome.msg = "Error reading response"
    /\ io[Len(io) - 1] = Ev("read", <<>>)
    /\ serialOpen = 0

\* The writes of the call for which serial.write returned fewer bytes than
\* the RS232 frame has
ShortWrites == {i \in WrittenAt : io[i].n < Len(io[i].data)}

\* C36: if the transport reports that fewer bytes were written than the
\* envelope contains, the call fails with a transport error ("Error
\* sending data") without performing any read, and the channel is closed.
C36_ShortWriteFailsCall ==
    ShortWrites # {} =>
        /\ Ended
        /\ outcome = Raise("SchunkRS232Error", "Error sending data")
        /\ NOps("read") = 0
        /\ received = <<>>
        /\ serialOpen = 0
        /\ Ops = <<"open", "write", "close">>

\* A blocking move has ended on a write that was one byte short
C36_Witness ==
    /\ Ended
    /\ method.blocking
    /\ ShortWrites = {2}
    /\ io[2].n = Len(io[2].data) - 1
    /\ outcome.exc = "SchunkRS232Error"
    /\ Ops = <<"open", "write", "close">>

\* The reads of the call, by position in io
ReadsAt == {i \in DOMAIN io : io[i].op = "read"}

\* Those that read a header: the first read and every second after it
HeadersAt ==
    {i \in ReadsAt : Cardinality({j \in ReadsAt : j < i}) % 2 = 0}

\* The header read for the k-th response of the call
HeaderOf(k) ==
    io[CHOOSE i \in HeadersAt :
           Cardinality({j \in HeadersAt : j < i}) = k - 1].data

\* An envelope with the message type 0x03 has begun to arrive in the call
ErrorTypeRead ==
    \E i \in HeadersAt : Len(io[i].data) >= 1 /\ io[i].data[1] = 3

\* C37: a received envelope with message type 0x03 is handed to the codec
\* only when its length byte is 2; every response with message type 0x03
\* makes the call fail, with a device error or a transport error; every
\* response of a call that returns successfully arrived with message type
\* 0x07.
C37_ErrorTypeNeverReturned ==
    /\ \A k \in 1..Len(received) :
           /\ HeaderOf(k)[3] = received[k][1]
           /\ HeaderOf(k)[1] = 3 => received[k][1] = 2
    /\ (Ended /\ ErrorTypeRead) =>
           /\ outcome.kind = "raise"
           /\ outcome.exc \notin Interrupts =>
                  \/ outcome.exc = "SchunkRS232Error"
                  \/ outcome.exc = "SchunkError" /\ outcome.msg = "device error"
    /\ (Ended /\ outcome.kind = "return") =>
           /\ Len(received) >= 1
           /\ Cardinality(HeadersAt) = Len(received)
           /\ \A k \in 1..Len(received) : HeaderOf(k)[1] = 7

\* A call has failed with the device error of a response that arrived
\* with message type 0x03 and length byte 2
C37_Witness ==
    /\ Ended
    /\ Len(received) = 1
    /\ HeaderOf(1) = <<3, ModuleId, 2>>
    /\ received[1][1] = 2
    /\ outcome.exc = "SchunkError"
    /\ outcome.msg = "device error"

====
